---- MODULE Spec2Model ----
(***************************************************************************)
(* Triage dialogue engine of the Saylani medical assistant:                *)
(*   app/services/conversation_handler.py  (ConversationHandler)           *)
(*   app/services/rag_service.py           (RAGService, the matcher)       *)
(*   app/models/schemas.py                 (UserContext, SymptomData)      *)
(*                                                                         *)
(* Text is modelled as a sequence of words; "k in text" (Python substring) *)
(* is modelled as "k occurs as a contiguous run of words of text".         *)
(***************************************************************************)
EXTENDS Integers, Sequences, FiniteSets, TLC

VARIABLES ctx, call, search, redis, tasks, log

vars == <<ctx, call, search, redis, tasks, log>>

None == "None"

(***************************************************************************)
(* Bounds of the model.                                                    *)
(***************************************************************************)
MaxUtterLen == 2
MaxRespLen == 1
MaxSymptoms == 2
MaxDoctors == 2

(***************************************************************************)
(* schemas.py                                                              *)
(***************************************************************************)
URDU == "ur"
ENGLISH == "en"
AUTO == "auto"
Language == {URDU, ENGLISH, AUTO}

INITIAL_COMPLAINT == "initial_complaint"
GATHERING_SYMPTOMS == "gathering_symptoms"
RISK_ASSESSMENT == "risk_assessment"
DOCTOR_RECOMMENDATION == "doctor_recommendation"
APPOINTMENT_BOOKING == "appointment_booking"
ConversationState ==
    {INITIAL_COMPLAINT, GATHERING_SYMPTOMS, RISK_ASSESSMENT,
     DOCTOR_RECOMMENDATION, APPOINTMENT_BOOKING}

\* SymptomData(chief_complaint=c): every other field at its default. A
\* severity_scale of 0 stands for None (both are falsy for `and`).
SymptomData(c) ==
    [chief_complaint |-> c, duration |-> None, severity |-> None,
     additional_symptoms |-> <<>>, severity_scale |-> 0]

\* symptom_data: Optional[SymptomData] = None
NoSymptomData == [kind |-> "None"]

\* The fields the UserContext model declares. Reading any other attribute of
\* a pydantic model raises AttributeError.
UserContextFields ==
    {"user_id", "conversation_state", "symptom_data", "chat_history",
     "risk_level", "preferences", "last_updated"}

\* UserContext(user_id=...): the handler-relevant fields at their defaults.
DefaultContext ==
    [conversation_state |-> INITIAL_COMPLAINT, symptom_data |-> NoSymptomData,
     risk_level |-> None]

(***************************************************************************)
(* Text helpers.                                                           *)
(***************************************************************************)
Words == {"Stroke", "chest", "pressure"}

SeqsUpTo(S, n) == UNION {[1..k -> S] : k \in 0..n}

Utterances == SeqsUpTo(Words, MaxUtterLen)

\* str.lower()
LowerWord(w) ==
    IF w = "Stroke" THEN "stroke" ELSE IF w = "Chest" THEN "chest" ELSE w
Lower(text) == [i \in 1..Len(text) |-> LowerWord(text[i])]

\* Python's  k in text
Contains(text, k) ==
    \E i \in 0..(Len(text) - Len(k)) : \A j \in 1..Len(k) : text[i + j] = k[j]

(***************************************************************************)
(* Reply texts. A reply is identified by its template, the language of the *)
(* template and the values substituted into it.                            *)
(***************************************************************************)
NoReply == [kind |-> "none"]

\* A lookup that falls back to the Urdu template.
TemplateLang_defaulting_to_urdu(language) ==
    IF language \in {URDU, ENGLISH} THEN language ELSE URDU

\* messages.get(language, messages[Language.ENGLISH])
TemplateLang(language) == IF language \in {URDU, ENGLISH} THEN language ELSE ENGLISH

EmergencyMessage(language) == [kind |-> "emergency", lang |-> TemplateLang(language)]

\* ConversationHandler.__init__
emergency_keywords_urdu ==
    << <<"saans", "nahi">>, <<"behosh">>, <<"khoon", "beh">>,
       <<"dil", "ka", "dora">>, <<"stroke">>, <<"bohot", "tez", "dard">>,
       <<"dil", "ka", "dabav">> >>
emergency_keywords_english ==
    << <<"can't", "breath">>, <<"unconcious">>, <<"severe", "bleeding">>,
       <<"heart", "attack">>, <<"stroke">>, <<"crushing", "pain">>,
       <<"chest", "pressure">> >>

\* extract_complaint: the keyword table, in insertion order.
complaints ==
    << <<"chest", "chest pain">>, <<"seene", "chest pain">>, <<"dard", "pain">>,
       <<"headache", "headache">>, <<"sar", "headache">>, <<"fever", "fever">>,
       <<"bukhar", "fever">>, <<"cough", "cough">>, <<"khansi", "cough">> >>

\* A lookup that lets a later entry of the table win.
extract_complaint_last_match(user_query) ==
    LET query_lower == Lower(user_query)
        hits == {i \in 1..Len(complaints) : Contains(query_lower, <<complaints[i][1]>>)}
    IN  IF hits = {} THEN "general complaint"
        ELSE complaints[CHOOSE i \in hits : \A j \in hits : i >= j][2]

extract_complaint(user_query) ==
    LET query_lower == Lower(user_query)
        hits == {i \in 1..Len(complaints) : Contains(query_lower, <<complaints[i][1]>>)}
    IN  IF hits = {} THEN "general complaint"
        ELSE complaints[CHOOSE i \in hits : \A j \in hits : i <= j][2]

is_obvious_emergency(text) ==
    LET text_lower == Lower(text)
        all_keywords == emergency_keywords_urdu \o emergency_keywords_english
    IN  \E i \in 1..Len(all_keywords) : Contains(text_lower, all_keywords[i])

\* The names bound while the body of handle_emergency(self, text) runs: its
\* parameters and its local; the module defines no global `language`.
handle_emergency_scope == {"self", "text", "messages"}

\* handle_emergency(self, text): the last line reads the name `language`.
handle_emergency(text) ==
    IF "language" \in handle_emergency_scope
    THEN [reply |-> EmergencyMessage(text), raised |-> None]
    ELSE [reply |-> NoReply, raised |-> "NameError"]

\* generate_followup_questions: the template keys of each language, in order.
questions_templates(lang) ==
    IF lang = URDU THEN <<"chest pain", "headache", "default">>
    ELSE <<"chest pain", "default">>

\* `key in complaint.lower()` for the complaint values extract_complaint can
\* return: a template key occurs in a complaint only when it equals it.
generate_followup_questions(complaint, language) ==
    LET lang == TemplateLang(language)
        templates == questions_templates(lang)
        hits == {i \in 1..Len(templates) : templates[i] = complaint}
    IN  [kind |-> "followup", lang |-> lang,
         key |-> IF hits = {} THEN "default"
                 ELSE templates[CHOOSE i \in hits : \A j \in hits : i <= j]]

\* Python truthiness of an Optional[str] value.
Truthy(v) == v # None /\ v # ""

\* has_enough_info that forgets the severity.
has_enough_info_without_severity(symptom_data) ==
    /\ Truthy(symptom_data.chief_complaint)
    /\ Truthy(symptom_data.duration)

has_enough_info(symptom_data) ==
    /\ Truthy(symptom_data.chief_complaint)
    /\ Truthy(symptom_data.duration)
    /\ Truthy(symptom_data.severity)

\* ask_missing_info that asks both questions whatever is stored.
ask_missing_info_asking_both(symptom_data, language) ==
    [kind |-> "ask_missing", lang |-> TemplateLang(language),
     bullets |->
        << [field |-> "duration", lang |-> IF language = URDU THEN URDU ELSE ENGLISH],
           [field |-> "severity", lang |-> IF language = URDU THEN URDU ELSE ENGLISH] >>]

ask_missing_info(symptom_data, language) ==
    LET bullet == IF language = URDU THEN URDU ELSE ENGLISH
    IN  [kind |-> "ask_missing", lang |-> TemplateLang(language),
         bullets |->
            (IF ~Truthy(symptom_data.duration)
             THEN << [field |-> "duration", lang |-> bullet] >> ELSE <<>>)
            \o
            (IF ~Truthy(symptom_data.severity)
             THEN << [field |-> "severity", lang |-> bullet] >> ELSE <<>>)]

ask_for_location(language) == [kind |-> "ask_location", lang |-> TemplateLang(language)]

no_doctors_available(language) == [kind |-> "no_doctors", lang |-> TemplateLang(language)]

(***************************************************************************)
(* The directory (MongoDB collections), as the matcher reads it.           *)
(*   branches : the active branches within the search radius, nearest      *)
(*              first, each with its Haversine distance (km)               *)
(*   doctors  : the active doctors, in collection order                    *)
(*   mapping  : the symptom_mapping documents                              *)
(*   fail     : the query that raises, if any                              *)
(***************************************************************************)
Branches == [B1 |-> 5, B2 |-> 2]
BranchIds == DOMAIN Branches
Specialities == {"General Medicine", "Cardiology"}

BranchLists ==
    { <<>>, << [branch_id |-> "B2", distance_km |-> Branches["B2"]] >>,
      << [branch_id |-> "B1", distance_km |-> Branches["B1"]] >>,
      << [branch_id |-> "B2", distance_km |-> Branches["B2"]],
         [branch_id |-> "B1", distance_km |-> Branches["B1"]] >> }

DoctorDocs ==
    [speciality : Specialities,
     branches : { <<"B1">>, <<"B2">>, <<"B1", "B2">>, <<>> }]

\* The doctor at position i of the collection is named i.
DoctorLists ==
    UNION { {[i \in 1..k |-> [name |-> i, speciality |-> f[i].speciality,
                              branches |-> f[i].branches]] : f \in [1..k -> DoctorDocs]}
            : k \in 0..MaxDoctors }

MappingLists ==
    { <<>>, << [symptoms |-> {"chest pain"}, speciality |-> "Cardiology"] >> }

Failures == {"none", "mapping", "branches", "doctors"}

Directories ==
    [branches : BranchLists, doctors : DoctorLists,
     mapping : MappingLists, fail : Failures]

EmptyDirectory ==
    [branches |-> <<>>, doctors |-> <<>>, mapping |-> <<>>, fail |-> "none"]

Infinity == 1000000

ToSet(s) == {s[i] : i \in 1..Len(s)}

Min(S) == CHOOSE x \in S : \A y \in S : x <= y

\* list.sort(key=...): a stable insertion sort, ascending by key.
RECURSIVE InsertByKey(_, _)
InsertByKey(sorted, d) ==
    IF sorted = <<>> THEN <<d>>
    ELSE IF sorted[Len(sorted)].min_distance <= d.min_distance
         THEN Append(sorted, d)
         ELSE Append(InsertByKey(SubSeq(sorted, 1, Len(sorted) - 1), d),
                     sorted[Len(sorted)])

RECURSIVE SortByMinDistance(_)
SortByMinDistance(ds) ==
    IF ds = <<>> THEN <<>>
    ELSE InsertByKey(SortByMinDistance(SubSeq(ds, 1, Len(ds) - 1)), ds[Len(ds)])

\* The value of calling an `async def` function: the awaited result when
\* the call is awaited, the coroutine object otherwise.
Coroutine == [kind |-> "coroutine"]
Returned(v) == [kind |-> "value", value |-> v]
CallAsync(awaited, v) == IF awaited THEN Returned(v) ELSE Coroutine

\* BranchService.get_nearest_branch: the query result cut to `limit`; any
\* error is caught and gives [].
get_nearest_branch(user_location, limit, dir) ==
    IF dir.fail = "branches" THEN <<>>
    ELSE SubSeq(dir.branches, 1, IF Len(dir.branches) < limit
                                   THEN Len(dir.branches) ELSE limit)

\* RAGService.map_symptoms_to_speciality: find_one on "symptoms $in"; any
\* error is caught and gives None.
map_symptoms_to_speciality(symptoms, dir) ==
    LET hits == {i \in 1..Len(dir.mapping) :
                    dir.mapping[i].symptoms \cap ToSet(symptoms) # {}}
    IN  IF symptoms = <<>> \/ dir.fail = "mapping" \/ hits = {}
        THEN [kind |-> "None"]
        ELSE [kind |-> "dict", speciality |-> dir.mapping[Min(hits)].speciality]

Locations == {None, "Clifton"}

Take(s, n) == SubSeq(s, 1, IF Len(s) < n THEN Len(s) ELSE n)

\* The regex filter {"speciality": {"$regex": speciality, "$options": "i"}}
\* on the speciality names of the directory.
SpecialityMatches(doc, speciality) == doc.speciality = speciality

\* rag_service.py line 52 calls branch_service.get_nearest_branch(...) and
\* line 230 calls self.map_symptoms_to_speciality(...): both are `async def`
\* and neither call is awaited.
get_nearest_branch_awaited == FALSE
map_symptoms_to_speciality_awaited == FALSE

\* The keys of a doctor document once line 72 has added "nearby_branches".
doctor_keys ==
    {"doctor_id", "name", "qualification", "speciality", "experience_years",
     "languages", "branches", "is_active", "nearby_branches"}

\* Lines 71-85: keep the affiliations at the candidate branches and attach
\* the distance of each.
WithNearbyBranches(doctor, nearest_branches) ==
    LET branch_ids == {nearest_branches[i].branch_id : i \in 1..Len(nearest_branches)}
        kept == SelectSeq(doctor.branches, LAMBDA b : b \in branch_ids)
        info(b) == CHOOSE x \in ToSet(nearest_branches) : x.branch_id = b
    IN  [name |-> doctor.name, speciality |-> doctor.speciality,
         branches |-> doctor.branches,
         nearby_branches |->
            [i \in 1..Len(kept) |->
                [branch_id |-> kept[i],
                 branch_distance |-> info(kept[i]).distance_km]]]

\* Lines 87-95 for one doctor; min_key is the key line 91 reads.
WithMinDistance(doctor, min_key) ==
    [name |-> doctor.name, speciality |-> doctor.speciality,
     branches |-> doctor.branches, nearby_branches |-> doctor.nearby_branches,
     min_distance |->
        IF doctor.nearby_branches # <<>>
        THEN Min({doctor[min_key][i].branch_distance : i \in 1..Len(doctor[min_key])})
        ELSE Infinity]

\* The body of the try block of find_doctors_at_nearest_branches.
find_doctors_try(speciality, user_location, max_branches, dir) ==
    LET nearest_branches ==
            CallAsync(get_nearest_branch_awaited,
                      get_nearest_branch(user_location, max_branches, dir))
    IN  IF nearest_branches.kind = "coroutine"
        THEN \* a coroutine object is truthy; line 61 iterates over it
             [raised |-> "TypeError", doctors |-> <<>>, queried |-> None]
        ELSE IF nearest_branches.value = <<>>
        THEN [raised |-> None, doctors |-> <<>>, queried |-> None]
        ELSE IF dir.fail = "doctors"
        THEN [raised |-> "PyMongoError", doctors |-> <<>>, queried |-> speciality]
        ELSE
            LET nb == nearest_branches.value
                branch_ids == {nb[i].branch_id : i \in 1..Len(nb)}
                found == SelectSeq(dir.doctors,
                            LAMBDA d : /\ SpecialityMatches(d, speciality)
                                       /\ ToSet(d.branches) \cap branch_ids # {})
                doctors == [i \in 1..Len(found) |-> WithNearbyBranches(found[i], nb)]
            IN  IF \E i \in 1..Len(doctors) :
                       /\ doctors[i].nearby_branches # <<>>
                       /\ "nearest_branches" \notin doctor_keys
                THEN \* line 91: doctor["nearest_branches"]
                     [raised |-> "KeyError", doctors |-> <<>>,
                      queried |-> speciality]
                ELSE [raised |-> None, queried |-> speciality,
                      doctors |-> SortByMinDistance(
                          [i \in 1..Len(doctors) |->
                              WithMinDistance(doctors[i], "nearest_branches")])]

\* try: ... except Exception: return []. `queried` is the speciality of the
\* doctor query the call issued (None when it issued none).
Guarded(r) ==
    [raised |-> None, doctors |-> IF r.raised # None THEN <<>> ELSE r.doctors,
     queried |-> r.queried]

\* find_doctors_at_nearest_branches: `except Exception` returns [].
find_doctors_at_nearest_branches(speciality, user_location, max_branches, dir) ==
    Guarded(find_doctors_try(speciality, user_location, max_branches, dir)).doctors

\* The body of the try block of smart_symptom_search.
smart_symptom_search_try(user_query, user_location, extracted_symptoms, dir) ==
    LET symptom_mapping ==
            CallAsync(map_symptoms_to_speciality_awaited,
                      map_symptoms_to_speciality(extracted_symptoms, dir))
        speciality ==
            IF extracted_symptoms = <<>> THEN "General Medicine"
            ELSE IF symptom_mapping.value.kind = "dict"
                 THEN symptom_mapping.value.speciality
                 ELSE "General Medicine"
    IN  IF extracted_symptoms # <<>> /\ symptom_mapping.kind = "coroutine"
        THEN \* a coroutine object is truthy and has no attribute `get`
             [raised |-> "AttributeError", doctors |-> <<>>, queried |-> None]
        ELSE IF user_location # None
        THEN [raised |-> None,
              doctors |-> find_doctors_at_nearest_branches(
                              speciality, user_location, 3, dir),
              queried |-> find_doctors_try(speciality, user_location, 3,
                                           dir).queried]
        ELSE IF dir.fail = "doctors"
        THEN [raised |-> "PyMongoError", doctors |-> <<>>, queried |-> speciality]
        ELSE [raised |-> None, queried |-> speciality,
              doctors |-> Take(SelectSeq(dir.doctors,
                                  LAMBDA d : SpecialityMatches(d, speciality)), 5)]

\* smart_symptom_search without its try/except.
smart_symptom_search_unguarded(user_query, user_location, extracted_symptoms, dir) ==
    smart_symptom_search_try(user_query, user_location, extracted_symptoms, dir)

\* smart_symptom_search: `except Exception` returns [].
smart_symptom_search(user_query, user_location, extracted_symptoms, dir) ==
    Guarded(smart_symptom_search_try(user_query, user_location, extracted_symptoms, dir))

(***************************************************************************)
(* The text generator's answer: a sequence of tokens. "{...}" stands for a *)
(* JSON object (its members are the `obj` input), "null" for the JSON      *)
(* value null, "text" for prose that is not JSON.                          *)
(***************************************************************************)
\* The three-backtick fence followed by `json`, and the bare fence.
FENCE_JSON == "fence+json"
FENCE == "fence"
ResponseTokens == {FENCE_JSON, FENCE, "text", "{...}", "null"}
Responses == SeqsUpTo(ResponseTokens, MaxRespLen) \ {<<>>}

\* The JSON objects the generator may answer with. A member that is missing,
\* null or empty is falsy for dict.get(...): None stands for all three for a
\* string member, <<>> for the list member.
Durations == {None, "2 days"}
Severities == {None, "mild", "severe", "9"}
Symptoms == {"nausea"}
JsonObjects ==
    [kind : {"dict"}, duration : Durations, severity : Severities,
     additional_symptoms : SeqsUpTo(Symptoms, 1)]

EmptyDict ==
    [kind |-> "dict", duration |-> None, severity |-> None,
     additional_symptoms |-> <<>>]

\* Does the fence occur in the text?  The bare fence occurs in FENCE_JSON.
HasFence(text, fence) ==
    \E i \in 1..Len(text) :
        text[i] = fence \/ (fence = FENCE /\ text[i] = FENCE_JSON)

IsSep(tok, sep) == tok = sep \/ (sep = FENCE /\ tok = FENCE_JSON)

\* What follows a separator after the split: splitting at the bare fence
\* leaves the `json` of a FENCE_JSON token as text.
Rest(tok, sep) == IF sep = FENCE /\ tok = FENCE_JSON THEN <<"text">> ELSE <<>>

\* text.split(sep)[0]
SplitFirst(text, sep) ==
    LET seps == {i \in 1..Len(text) : IsSep(text[i], sep)}
    IN  IF seps = {} THEN text ELSE SubSeq(text, 1, Min(seps) - 1)

\* text.split(sep)[1], for a text that holds sep
SplitSecond(text, sep) ==
    LET seps == {i \in 1..Len(text) : IsSep(text[i], sep)}
        first == Min(seps)
        after == Rest(text[first], sep) \o SubSeq(text, first + 1, Len(text))
    IN  SplitFirst(after, sep)

\* json.loads: the text is one JSON value, or the call raises.
json_loads(text, obj) ==
    IF text = <<"{...}">> THEN [raised |-> None, value |-> obj]
    ELSE IF text = <<"null">> THEN [raised |-> None, value |-> [kind |-> "null"]]
    ELSE [raised |-> "JSONDecodeError", value |-> EmptyDict]

\* parse_symptom_answers, given the generator's answer.
parse_symptom_answers(response, obj) ==
    LET response_clean ==
            IF HasFence(response, FENCE_JSON)
            THEN SplitFirst(SplitSecond(response, FENCE_JSON), FENCE)
            ELSE IF HasFence(response, FENCE)
            THEN SplitFirst(SplitSecond(response, FENCE), FENCE)
            ELSE response
        parsed == json_loads(response_clean, obj)
    IN  IF parsed.raised # None THEN EmptyDict ELSE parsed.value

(***************************************************************************)
(* The handlers of ConversationHandler. Each gives the context as the      *)
(* handler leaves it, the reply it returns (NoReply when it raises), the   *)
(* exception it raises (None when it returns) and the values it assigned   *)
(* to conversation_state, in order.                                        *)
(***************************************************************************)
\* Stands for the Urdu severity label of assess_risk.
SEVERE_URDU == "shadeed"

Result(c, reply, raised, trace) ==
    [ctx |-> c, reply |-> reply, raised |-> raised, trace |-> trace,
     searched |-> FALSE, extracted |-> FALSE,
     matcher_calls |-> 0, extractor_calls |-> 0]

\* The handler called rag_service.smart_symptom_search (line 304), then gave r.
MatcherInvoked(r) ==
    [r EXCEPT !.searched = TRUE, !.matcher_calls = @ + 1]

\* A handler that calls parse_symptom_answers again when the turn ends
\* with a question.
ExtractorInvoked_retrying(r) ==
    [r EXCEPT !.extracted = TRUE,
              !.extractor_calls = IF r.reply.kind = "ask_missing"
                                  THEN @ + 2 ELSE @ + 1]

\* The handler called parse_symptom_answers (line 208), then gave r.
ExtractorInvoked(r) ==
    [r EXCEPT !.extracted = TRUE, !.extractor_calls = @ + 1]

\* The parts of the listing text, in the order the response is built: the
\* two heading lines, one entry per listed doctor, the facilities block, the
\* bolded note and the closing information lines.
ListingParts(listed, noted) ==
    <<"heading">> \o [i \in 1..listed |-> "doctor"] \o <<"facilities">>
        \o (IF noted THEN <<"urgent_note">> ELSE <<>>) \o <<"information">>

\* A listing that carries the note for an emergency as well.
format_doctor_recommendation_noting_emergency(doctors, symptom_data, risk_level, language) ==
    [kind |-> "listing", lang |-> IF language = URDU THEN URDU ELSE ENGLISH,
     doctors |-> [i \in 1..Len(Take(doctors, 3)) |-> doctors[i].name],
     urgent_note |-> (risk_level \in {"urgent", "emergency"}),
     parts |-> ListingParts(Len(Take(doctors, 3)),
                            risk_level \in {"urgent", "emergency"})]

format_doctor_recommendation(doctors, symptom_data, risk_level, language) ==
    [kind |-> "listing", lang |-> IF language = URDU THEN URDU ELSE ENGLISH,
     doctors |-> [i \in 1..Len(Take(doctors, 3)) |-> doctors[i].name],
     urgent_note |-> (risk_level = "urgent"),
     parts |-> ListingParts(Len(Take(doctors, 3)), risk_level = "urgent")]

\* Lines 310-318, given what the matcher gave.
RecommendReply(user_context, language, found) ==
    IF found.raised # None
    THEN Result(user_context, NoReply, found.raised, <<>>)
    ELSE IF found.doctors = <<>>
    THEN Result(user_context, no_doctors_available(language), None, <<>>)
    ELSE Result(user_context,
                format_doctor_recommendation(found.doctors, user_context.symptom_data,
                    user_context.risk_level, language),
                None, <<>>)

\* recommend_doctor that runs the matcher without looking at the location.
recommend_doctor_without_location_check(user_context, language, dir) ==
    IF user_context.symptom_data = NoSymptomData
    THEN Result(user_context, NoReply, "AttributeError", <<>>)
    ELSE MatcherInvoked(RecommendReply(user_context, language,
            smart_symptom_search(
                user_context.symptom_data.chief_complaint,
                None,
                <<user_context.symptom_data.chief_complaint>>
                    \o user_context.symptom_data.additional_symptoms,
                dir)))

recommend_doctor(user_context, language, dir) ==
    IF "user_location" \notin UserContextFields
    THEN \* line 297 reads user_context.user_location
         Result(user_context, NoReply, "AttributeError", <<>>)
    ELSE IF user_context.user_location = None
    THEN Result(user_context, ask_for_location(language), None, <<>>)
    ELSE IF user_context.symptom_data = NoSymptomData
    THEN Result(user_context, NoReply, "AttributeError", <<>>)
    ELSE MatcherInvoked(RecommendReply(user_context, language,
            smart_symptom_search(
                user_context.symptom_data.chief_complaint,
                user_context.user_location,
                <<user_context.symptom_data.chief_complaint>>
                    \o user_context.symptom_data.additional_symptoms,
                dir)))

\* The handler assigned `states` to conversation_state, then ran r.
After(states, r) == [r EXCEPT !.trace = states \o @]

\* RiskOf with the threshold one too high.
RiskOf_above_8(symptom_data) ==
    IF \/ symptom_data.severity \in {"severe", SEVERE_URDU}
       \/ (symptom_data.severity_scale # 0 /\ symptom_data.severity_scale > 8)
    THEN "urgent" ELSE "routine"

\* Lines 285-288.
RiskOf(symptom_data) ==
    IF \/ symptom_data.severity \in {"severe", SEVERE_URDU}
       \/ (symptom_data.severity_scale # 0 /\ symptom_data.severity_scale >= 8)
    THEN "urgent" ELSE "routine"

\* assess_risk that sends the conversation back to GATHERING_SYMPTOMS.
assess_risk_back_to_gathering(user_context, language, dir) ==
    IF user_context.symptom_data = NoSymptomData
    THEN Result(user_context, NoReply, "AttributeError", <<>>)
    ELSE After(<<GATHERING_SYMPTOMS>>,
               recommend_doctor(
                   [user_context EXCEPT
                       !.risk_level = RiskOf(user_context.symptom_data),
                       !.conversation_state = GATHERING_SYMPTOMS],
                   language, dir))

\* assess_risk that goes back to asking when the symptom data is incomplete.
assess_risk_asking_when_incomplete(user_context, language, dir) ==
    IF user_context.symptom_data = NoSymptomData
    THEN Result(user_context, NoReply, "AttributeError", <<>>)
    ELSE IF ~has_enough_info(user_context.symptom_data)
    THEN Result([user_context EXCEPT !.conversation_state = GATHERING_SYMPTOMS],
                ask_missing_info(user_context.symptom_data, language),
                None, <<GATHERING_SYMPTOMS>>)
    ELSE After(<<DOCTOR_RECOMMENDATION>>,
               recommend_doctor(
                   [user_context EXCEPT
                       !.risk_level = RiskOf(user_context.symptom_data),
                       !.conversation_state = DOCTOR_RECOMMENDATION],
                   language, dir))

assess_risk(user_context, language, dir) ==
    IF user_context.symptom_data = NoSymptomData
    THEN Result(user_context, NoReply, "AttributeError", <<>>)
    ELSE After(<<DOCTOR_RECOMMENDATION>>,
               recommend_doctor(
                   [user_context EXCEPT
                       !.risk_level = RiskOf(user_context.symptom_data),
                       !.conversation_state = DOCTOR_RECOMMENDATION],
                   language, dir))

\* A merge that takes the extractor's duration and severity as they come.
MergeParsed_overwriting(symptom_data, parsed_data) ==
    [symptom_data EXCEPT
        !.duration = parsed_data.duration,
        !.severity = parsed_data.severity,
        !.additional_symptoms = @ \o parsed_data.additional_symptoms]

\* A merge that also stores a numeric severity answer in severity_scale.
MergeParsed_setting_scale(symptom_data, parsed_data) ==
    [symptom_data EXCEPT
        !.duration = IF Truthy(parsed_data.duration)
                     THEN parsed_data.duration ELSE @,
        !.severity = IF Truthy(parsed_data.severity)
                     THEN parsed_data.severity ELSE @,
        !.severity_scale = IF parsed_data.severity = "9" THEN 9 ELSE @,
        !.additional_symptoms = @ \o parsed_data.additional_symptoms]

\* Lines 210-216: the merge of the extractor's result.
MergeParsed(symptom_data, parsed_data) ==
    [symptom_data EXCEPT
        !.duration = IF Truthy(parsed_data.duration)
                     THEN parsed_data.duration ELSE @,
        !.severity = IF Truthy(parsed_data.severity)
                     THEN parsed_data.severity ELSE @,
        !.additional_symptoms = @ \o parsed_data.additional_symptoms]

\* Lines 218-222, on the context that holds the merged symptom data.
Proceed(merged, language, dir) ==
    IF has_enough_info(merged.symptom_data)
    THEN After(<<RISK_ASSESSMENT>>,
               assess_risk([merged EXCEPT !.conversation_state = RISK_ASSESSMENT],
                           language, dir))
    ELSE Result(merged, ask_missing_info(merged.symptom_data, language), None, <<>>)

\* Lines 210-222, given what parse_symptom_answers returned.
Gathered(user_context, language, parsed_data, dir) ==
    IF parsed_data.kind # "dict"
    THEN \* line 211: parsed_data.get on a value that is no dict
         Result(user_context, NoReply, "AttributeError", <<>>)
    ELSE IF user_context.symptom_data = NoSymptomData
    THEN Result(user_context, NoReply, "AttributeError", <<>>)
    ELSE Proceed([user_context EXCEPT
                     !.symptom_data = MergeParsed(@, parsed_data)],
                 language, dir)

\* gather_symptoms that looks for an emergency keyword first.
gather_symptoms_rechecking_emergency(user_query, user_context, language, parsed_data, dir) ==
    IF is_obvious_emergency(user_query)
    THEN Result([user_context EXCEPT !.risk_level = "emergency",
                                     !.conversation_state = RISK_ASSESSMENT],
                EmergencyMessage(language), None, <<RISK_ASSESSMENT>>)
    ELSE ExtractorInvoked(Gathered(user_context, language, parsed_data, dir))

gather_symptoms(user_query, user_context, language, parsed_data, dir) ==
    ExtractorInvoked(Gathered(user_context, language, parsed_data, dir))

\* A triage that moves to RISK_ASSESSMENT without setting risk_level.
Triage_without_risk_level(c, user_query, chief_complaint, language) ==
    IF is_obvious_emergency(user_query)
    THEN Result([c EXCEPT !.conversation_state = RISK_ASSESSMENT],
                handle_emergency(language).reply,
                handle_emergency(language).raised, <<RISK_ASSESSMENT>>)
    ELSE Result([c EXCEPT !.conversation_state = GATHERING_SYMPTOMS],
                generate_followup_questions(chief_complaint, language),
                None, <<GATHERING_SYMPTOMS>>)

\* Lines 56-62, on the context that holds the new symptom data.
Triage(c, user_query, chief_complaint, language) ==
    IF is_obvious_emergency(user_query)
    THEN Result([c EXCEPT !.risk_level = "emergency",
                          !.conversation_state = RISK_ASSESSMENT],
                handle_emergency(language).reply,
                handle_emergency(language).raised, <<RISK_ASSESSMENT>>)
    ELSE Result([c EXCEPT !.conversation_state = GATHERING_SYMPTOMS],
                generate_followup_questions(chief_complaint, language),
                None, <<GATHERING_SYMPTOMS>>)

\* handle_initial_complaint that does not store the new symptom data.
handle_initial_complaint_without_symptom_data(user_query, user_context, language) ==
    Triage(user_context, user_query, extract_complaint(user_query), language)

handle_initial_complaint(user_query, user_context, language) ==
    Triage([user_context EXCEPT
               !.symptom_data = SymptomData(extract_complaint(user_query))],
           user_query, extract_complaint(user_query), language)

process_message(user_query, user_context, language, parsed_data, dir) ==
    LET state == user_context.conversation_state
    IN  IF state = INITIAL_COMPLAINT
        THEN handle_initial_complaint(user_query, user_context, language)
        ELSE IF state = GATHERING_SYMPTOMS
        THEN gather_symptoms(user_query, user_context, language, parsed_data, dir)
        ELSE IF state = RISK_ASSESSMENT
        THEN assess_risk(user_context, language, dir)
        ELSE IF state = DOCTOR_RECOMMENDATION
        THEN recommend_doctor(user_context, language, dir)
        ELSE handle_initial_complaint(user_query, user_context, language)

(***************************************************************************)
(* The context store (app/services/context_service.py): one Redis value    *)
(* per key, read and written by concurrent tasks. `log` records, per user, *)
(* the messages whose add_message returned True since the key was last     *)
(* deleted, the number of writes and deletions of the key, whether every   *)
(* write was made on an up-to-date, successfully read context, and whether *)
(* some write was made on a context read before another write or delete.   *)
(***************************************************************************)
\* Messages sent in a run of sequential calls, and in a run of concurrent
\* tasks.
MaxMessages == 7
MaxRacingMessages == 2
MaxComplaintLen == 3
MaxAnswerLen == 3
MaxListed == 4
MaxDistanceKm == 3
MaxWebhookMessages == 3
MaxServiceCalls == 3
MaxDetectLen == 3
MaxPipelineQueries == 3
MaxCommandMessages == 2

Users == {"A", "B"}
TaskIds == {"t1", "t2"}

\* self.max_history
max_history == 6
CONTEXT_TTL == 1800
TicksPerTTL == 2

\* A key that leaves the user out.
context_key_shared(user_id) == <<"context", "A">>

\* key = f"context:{user_id}"
context_key(user_id) == <<"context", user_id>>

Keys == {context_key(u) : u \in Users}

\* The value of a key that is not set.
Nil == [kind |-> "nil"]

\* UserContext(user_id=user_id, chat_history=[])
FreshContext(user_id) ==
    [user_id |-> user_id, chat_history |-> <<>>,
     conversation_state |-> INITIAL_COMPLAINT, symptom_data |-> NoSymptomData,
     risk_level |-> None]

\* context.model_dump_json()
model_dump_json(context) == [kind |-> "json", fields |-> context]

\* UserContext(**json.loads(data))
parse_context(data) == data.fields

\* redis_client.setex(key, seconds, data): the value is stored and the time
\* the key has left to live is set to seconds.
setex(store, key, seconds, data) ==
    [store EXCEPT ![key] = [kind |-> "entry", data |-> data, ttl |-> seconds]]

\* get_context that returns a fresh context whatever is stored.
get_context_always_fresh(user_id, store, read_ok) == FreshContext(user_id)

\* get_context: the stored context, or a fresh one when the key is not set
\* or the read fails.
get_context(user_id, store, read_ok) ==
    IF read_ok /\ store[context_key(user_id)] # Nil
    THEN parse_context(store[context_key(user_id)].data)
    ELSE FreshContext(user_id)

\* chat_history[-n:]
LastN(h, n) == IF Len(h) > n THEN SubSeq(h, Len(h) - n + 1, Len(h)) ELSE h

\* A cut that keeps the oldest entries.
Trim_keeping_oldest(chat_history) ==
    IF Len(chat_history) > max_history
    THEN SubSeq(chat_history, 1, max_history) ELSE chat_history

\* Lines 80-81 of save_context.
Trim(chat_history) ==
    IF Len(chat_history) > max_history
    THEN LastN(chat_history, max_history) ELSE chat_history

\* The entry add_message appends (the timestamp is left out).
Entry(role, content) == [role |-> role, content |-> content]

\* A write that leaves a key that is set the time it had left.
save_context_keeping_ttl(context, store) ==
    setex(store, context_key(context.user_id),
          IF store[context_key(context.user_id)] = Nil THEN CONTEXT_TTL
          ELSE store[context_key(context.user_id)].ttl,
          model_dump_json([context EXCEPT !.chat_history = Trim(@)]))

\* save_context: the store after a write that succeeds.
save_context(context, store) ==
    setex(store, context_key(context.user_id), CONTEXT_TTL,
          model_dump_json([context EXCEPT !.chat_history = Trim(@)]))

\* clear_context: the store after a delete that succeeds.
clear_context(user_id, store) ==
    [store EXCEPT ![context_key(user_id)] = Nil]

EmptyRedis == [k \in Keys |-> Nil]

\* A task: the call it runs and where it stands in it, the context it
\* holds, whether its read succeeded and which version of the key it read.
IdleTask ==
    [op |-> "none", phase |-> "idle", user |-> "A", content |-> 0,
     local |-> Nil, read_ok |-> TRUE, read_version |-> 0]

NoTasks == [t \in TaskIds |-> IdleTask]

NoLog ==
    [next |-> 1, arrived |-> [u \in Users |-> <<>>],
     version |-> [u \in Users |-> 0], lossless |-> [u \in Users |-> TRUE],
     raced |-> [u \in Users |-> FALSE],
     saved |-> [u \in Users |-> FALSE],
     since_save |-> [u \in Users |-> 0]]

(***************************************************************************)
(* The conversation: one context, driven by process_message.               *)
(***************************************************************************)
NotCalled == [kind |-> "not_called"]

\* Does parse_symptom_answers return the JSON object of this answer?
YieldsObject(response) ==
    parse_symptom_answers(response, [kind |-> "probe"]) = [kind |-> "probe"]

\* What one run of the extractor gives gather_symptoms: the value
\* parse_symptom_answers returns, and whether the generator's answer was
\* read as a JSON object.
ExtractorOutcomes ==
    { [is_object |-> FALSE, parsed_data |-> parse_symptom_answers(r, EmptyDict)]
        : r \in {x \in Responses : ~YieldsObject(x)} }
    \cup
    { [is_object |-> TRUE, parsed_data |-> parse_symptom_answers(r, o)]
        : r \in {x \in Responses : YieldsObject(x)}, o \in JsonObjects }

NoCall ==
    [op |-> "none", state_before |-> INITIAL_COMPLAINT, emergency |-> FALSE,
     language |-> AUTO, extractor |-> NotCalled,
     reply |-> NoReply, raised |-> None, trace |-> <<>>,
     searched |-> FALSE, extracted |-> FALSE,
     matcher_calls |-> 0, extractor_calls |-> 0, after_emergency |-> FALSE]

NoSearch ==
    [phase |-> "idle", user_location |-> None, extracted_symptoms |-> <<>>,
     dir |-> EmptyDirectory, raised |-> None, doctors |-> <<>>,
     queried |-> None]

Init ==
    /\ ctx = DefaultContext
    /\ call = NoCall
    /\ search = NoSearch
    /\ redis = EmptyRedis
    /\ tasks = NoTasks
    /\ log = NoLog

\* The context and the call record after a process_message call that
\* gave r. The call record keeps the state the call started in, whether the
\* utterance held an emergency keyword, the language, what the extractor
\* gave if the call ran it, the call's result, whether the call ran the
\* matcher, and whether risk_level has been "emergency" since the context
\* was created.
Returns(r, user_query, language, x) ==
    /\ r.ctx.symptom_data # NoSymptomData =>
          Len(r.ctx.symptom_data.additional_symptoms) <= MaxSymptoms
    /\ ctx' = r.ctx
    /\ call' = [op |-> "process_message",
                state_before |-> ctx.conversation_state,
                emergency |-> is_obvious_emergency(user_query),
                language |-> language,
                extractor |-> IF r.extracted THEN x ELSE NotCalled,
                reply |-> r.reply, raised |-> r.raised, trace |-> r.trace,
                searched |-> r.searched, extracted |-> r.extracted,
                matcher_calls |-> r.matcher_calls,
                extractor_calls |-> r.extractor_calls,
                after_emergency |-> (call.after_emergency
                                        \/ r.ctx.risk_level = "emergency")]
    /\ UNCHANGED <<search, redis, tasks, log>>

\* One process_message call on the context. The extractor runs (and the
\* text generator answers) only in gather_symptoms.
ProcessMessage ==
    \E user_query \in Utterances, language \in Language :
      \E x \in (IF ctx.conversation_state = GATHERING_SYMPTOMS
                THEN ExtractorOutcomes ELSE {NotCalled}) :
          Returns(process_message(user_query, ctx, language,
                                  IF x = NotCalled THEN NotCalled ELSE x.parsed_data,
                                  search.dir),
                  user_query, language, x)

\* ContextService.get_context when nothing is stored for the user (never
\* stored, expired or cleared): a fresh default context.
GetContext ==
    /\ ctx' = DefaultContext
    /\ call' = [NoCall EXCEPT !.op = "get_context",
                               !.state_before = ctx.conversation_state]
    /\ UNCHANGED <<search, redis, tasks, log>>

Next == ProcessMessage \/ GetContext

Spec == Init /\ [][Next]_vars

(***************************************************************************)
(* The matcher on its own: smart_symptom_search applied to every input.    *)
(***************************************************************************)
SymptomLists == {<<>>, <<"chest pain">>}

InitMatcher ==
    /\ ctx = DefaultContext
    /\ call = NoCall
    /\ search \in [phase : {"input"}, user_location : Locations,
                   extracted_symptoms : SymptomLists, dir : Directories,
                   raised : {None}, doctors : {<<>>}, queried : {None}]
    /\ redis = EmptyRedis
    /\ tasks = NoTasks
    /\ log = NoLog

\* The search record after a call that gave r.
Found(r) ==
    search' = [search EXCEPT !.phase = "done", !.raised = r.raised,
                             !.doctors = r.doctors, !.queried = r.queried]

SmartSymptomSearch ==
    /\ search.phase = "input"
    /\ Found(smart_symptom_search("", search.user_location,
                                  search.extracted_symptoms, search.dir))
    /\ UNCHANGED <<ctx, call, redis, tasks, log>>

NextMatcher == SmartSymptomSearch

SpecMatcher == InitMatcher /\ [][NextMatcher]_vars

(***************************************************************************)
(* extract_complaint on its own, applied to every utterance over words     *)
(* with and without a keyword of the table.                                *)
(***************************************************************************)
ComplaintWords == {"Chest", "dard", "fever", "hello"}

ComplaintUtterances == SeqsUpTo(ComplaintWords, MaxComplaintLen)

InitComplaint ==
    /\ ctx = DefaultContext
    /\ call \in [op : {"input"}, user_query : ComplaintUtterances,
                  result : {None}]
    /\ search = NoSearch
    /\ redis = EmptyRedis
    /\ tasks = NoTasks
    /\ log = NoLog

ExtractComplaint ==
    /\ call.op = "input"
    /\ call' = [call EXCEPT !.op = "extract_complaint",
                            !.result = extract_complaint(call.user_query)]
    /\ UNCHANGED <<ctx, search, redis, tasks, log>>

NextComplaint == ExtractComplaint

SpecComplaint == InitComplaint /\ [][NextComplaint]_vars

(***************************************************************************)
(* parse_symptom_answers on its own, applied to every answer of the text   *)
(* generator of up to MaxAnswerLen tokens.                                 *)
(***************************************************************************)
Answers == SeqsUpTo(ResponseTokens, MaxAnswerLen) \ {<<>>}

InitParser ==
    /\ ctx = DefaultContext
    /\ call \in [op : {"input"}, response : Answers,
                  obj : JsonObjects \ {EmptyDict}, result : {EmptyDict}]
    /\ search = NoSearch
    /\ redis = EmptyRedis
    /\ tasks = NoTasks
    /\ log = NoLog

ParseSymptomAnswers ==
    /\ call.op = "input"
    /\ call' = [call EXCEPT
                  !.op = "parse_symptom_answers",
                  !.result = parse_symptom_answers(call.response, call.obj)]
    /\ UNCHANGED <<ctx, search, redis, tasks, log>>

NextParser == ParseSymptomAnswers

SpecParser == InitParser /\ [][NextParser]_vars

(***************************************************************************)
(* The formatter on its own: each message function applied to every input. *)
(***************************************************************************)
RiskLevels == {None, "routine", "urgent", "emergency"}

\* The doctor lists handed to the listing: up to MaxListed doctors.
ListedDoctors == SeqsUpTo([name : 1..2], MaxListed)

FormatterComplaints == {"chest pain", "headache", "general complaint"}

InitFormatter ==
    /\ ctx = DefaultContext
    /\ call \in [op : {"input"}, language : Language,
                  complaint : FormatterComplaints,
                  duration : Durations, severity : Severities,
                  doctors : ListedDoctors, risk_level : RiskLevels,
                  reply : {NoReply}]
    /\ search = NoSearch
    /\ redis = EmptyRedis
    /\ tasks = NoTasks
    /\ log = NoLog

\* The symptom data of the formatter's input.
FormatterSymptomData ==
    [chief_complaint |-> call.complaint, duration |-> call.duration,
     severity |-> call.severity, additional_symptoms |-> <<>>,
     severity_scale |-> 0]

\* The call record after the message function op returned reply.
Formatted(op, reply) ==
    /\ call.op = "input"
    /\ call' = [call EXCEPT !.op = op, !.reply = reply]
    /\ UNCHANGED <<ctx, search, redis, tasks, log>>

GenerateFollowupQuestions ==
    Formatted("generate_followup_questions",
              generate_followup_questions(call.complaint, call.language))

AskMissingInfo ==
    Formatted("ask_missing_info",
              ask_missing_info(FormatterSymptomData, call.language))

AskForLocation ==
    Formatted("ask_for_location", ask_for_location(call.language))

NoDoctorsAvailable ==
    Formatted("no_doctors_available", no_doctors_available(call.language))

FormatDoctorRecommendation ==
    Formatted("format_doctor_recommendation",
              format_doctor_recommendation(call.doctors, FormatterSymptomData,
                                           call.risk_level, call.language))

NextFormatter ==
    \/ GenerateFollowupQuestions
    \/ AskMissingInfo
    \/ AskForLocation
    \/ NoDoctorsAvailable
    \/ FormatDoctorRecommendation

SpecFormatter == InitFormatter /\ [][NextFormatter]_vars

(***************************************************************************)
(* format_distance on its own. A distance is a whole number of half        *)
(* metres, so that distance_km is d / UnitsPerKm; a text is the number it   *)
(* shows and its unit.                                                     *)
(***************************************************************************)
UnitsPerKm == 2000

Distances == 0..(MaxDistanceKm * UnitsPerKm)

\* f"{distance_km:.1f}": the tenths of a kilometre nearest to the distance.
\* A distance half way between two tenths is a binary fraction only at a
\* quarter or three quarters of a kilometre, where the even tenth is taken;
\* elsewhere the float nearest to it lies above or below (round_up).
OneDecimal(d, round_up) ==
    LET q == d \div (UnitsPerKm \div 10)
        r == d % (UnitsPerKm \div 10)
        half == UnitsPerKm \div 20
    IN  IF r < half THEN q
        ELSE IF r > half THEN q + 1
        ELSE IF (d % UnitsPerKm) \in {UnitsPerKm \div 4, 3 * (UnitsPerKm \div 4)}
        THEN (IF q % 2 = 0 THEN q ELSE q + 1)
        ELSE IF round_up THEN q + 1 ELSE q

\* A rendering that takes one kilometre for less than one.
format_distance_inclusive(d, round_up) ==
    IF d <= UnitsPerKm
    THEN [unit |-> "meters", number |-> (d * 1000) \div UnitsPerKm, tenth |-> 0]
    ELSE [unit |-> "km", number |-> OneDecimal(d, round_up) \div 10,
          tenth |-> OneDecimal(d, round_up) % 10]

\* BranchService.format_distance: int(distance_km * 1000) meters below one
\* kilometre, "{number}.{tenth} km" from one kilometre on.
format_distance(d, round_up) ==
    IF d < UnitsPerKm
    THEN [unit |-> "meters", number |-> (d * 1000) \div UnitsPerKm, tenth |-> 0]
    ELSE [unit |-> "km", number |-> OneDecimal(d, round_up) \div 10,
          tenth |-> OneDecimal(d, round_up) % 10]

InitDistance ==
    /\ ctx = DefaultContext
    /\ call \in [op : {"input"}, distance : Distances, text : {None}]
    /\ search = NoSearch
    /\ redis = EmptyRedis
    /\ tasks = NoTasks
    /\ log = NoLog

FormatDistance ==
    /\ call.op = "input"
    /\ \E round_up \in BOOLEAN :
          call' = [call EXCEPT !.op = "format_distance",
                               !.text = format_distance(call.distance, round_up)]
    /\ UNCHANGED <<ctx, search, redis, tasks, log>>

NextDistance == FormatDistance

SpecDistance == InitDistance /\ [][NextDistance]_vars

(***************************************************************************)
(* The webhook and the preferences store: handle_webhook applied to the    *)
(* messages users send, from a store that holds no preferences.            *)
(***************************************************************************)
\* InteractionMode
VOICE == "voice"
TEXT == "text"
NOT_SET == "not_set"

\* key = f"preferences:{user_id}"
preferences_key(user_id) == <<"preferences", user_id>>

PreferenceKeys == {preferences_key(u) : u \in Users}

\* UserPreferences(user_id=user_id): language AUTO, interaction_mode NOT_SET.
DefaultPreferences(user_id) ==
    [user_id |-> user_id, language |-> AUTO, interaction_mode |-> NOT_SET]

\* get_preferences: the stored preferences, or the default ones when the
\* key is not set or the read fails.
get_preferences(user_id, store, redis_ok) ==
    IF redis_ok /\ store[preferences_key(user_id)] # Nil
    THEN store[preferences_key(user_id)].fields
    ELSE DefaultPreferences(user_id)

\* save_preferences: the store after the call; a failed write is caught.
save_preferences(preferences, store, redis_ok) ==
    IF redis_ok
    THEN [store EXCEPT ![preferences_key(preferences.user_id)] =
                            model_dump_json(preferences)]
    ELSE store

set_language(user_id, language, store, redis_ok) ==
    save_preferences([get_preferences(user_id, store, redis_ok)
                         EXCEPT !.language = language], store, redis_ok)

set_interaction_mode(user_id, mode, store, redis_ok) ==
    save_preferences([get_preferences(user_id, store, redis_ok)
                         EXCEPT !.interaction_mode = mode], store, redis_ok)

needs_onboarding(user_id, store, redis_ok) ==
    get_preferences(user_id, store, redis_ok).interaction_mode = NOT_SET

\* The result of a webhook step: the store it leaves and the message it
\* sends to the user.
Sent(store, kind) == [store |-> store, handled |-> TRUE, reply |-> kind]

\* handle_command: the commands, in the order the function tests them (the
\* Urdu spellings are left out).
handle_command(text, from_number, store, redis_ok) ==
    IF text \in {"1", "urdu"}
    THEN Sent(set_language(from_number, URDU, store, redis_ok), "mode_selection")
    ELSE IF text \in {"2", "english"}
    THEN Sent(set_language(from_number, ENGLISH, store, redis_ok), "mode_selection")
    ELSE IF text \in {"voice", "audio"}
    THEN Sent(set_interaction_mode(from_number, VOICE, store, redis_ok),
              "confirmation")
    ELSE IF text \in {"text"}
    THEN Sent(set_interaction_mode(from_number, TEXT, store, redis_ok),
              "confirmation")
    ELSE IF text \in {"settings", "setting"} THEN Sent(store, "settings")
    ELSE IF text \in {"help", "menu"} THEN Sent(store, "help")
    ELSE IF text = "language" THEN Sent(store, "welcome")
    ELSE IF text = "mode" THEN Sent(store, "mode_selection")
    ELSE [store |-> store, handled |-> FALSE, reply |-> "none"]

\* A webhook that applies the mode gate to a text message before it looks
\* for a command in it.
handle_webhook_mode_gate_first(message, from_number, store, redis_ok) ==
    IF needs_onboarding(from_number, store, redis_ok)
    THEN Sent(store, "welcome")
    ELSE IF message.type = "audio"
    THEN Sent(store, IF get_preferences(from_number, store, redis_ok).interaction_mode = TEXT
                     THEN "text_mode_active" ELSE "answer")
    ELSE IF get_preferences(from_number, store, redis_ok).interaction_mode = VOICE
    THEN Sent(store, "unsupported")
    ELSE IF handle_command(message.body, from_number, store, redis_ok).handled
    THEN handle_command(message.body, from_number, store, redis_ok)
    ELSE Sent(store, "answer")

\* handle_webhook for one message of a user (lines 68-101): the welcome
\* message while the user needs onboarding, else the command, else the
\* message is processed or refused for the mode it comes in.
handle_webhook(message, from_number, store, redis_ok) ==
    IF needs_onboarding(from_number, store, redis_ok)
    THEN Sent(store, "welcome")
    ELSE IF message.type = "text"
            /\ handle_command(message.body, from_number, store, redis_ok).handled
    THEN handle_command(message.body, from_number, store, redis_ok)
    ELSE IF message.type = "audio"
    THEN Sent(store, IF get_preferences(from_number, store, redis_ok).interaction_mode = TEXT
                     THEN "text_mode_active" ELSE "answer")
    ELSE Sent(store, IF get_preferences(from_number, store, redis_ok).interaction_mode = VOICE
                     THEN "unsupported" ELSE "answer")

\* The messages users send: the choices of the welcome and mode messages,
\* a text that is no command, and a voice message.
WebhookMessages ==
    [type : {"text"}, body : {"1", "2", "voice", "text", "chest"}]
        \cup {[type |-> "audio", body |-> ""]}

\* The messages each user has sent so far, whether Redis answered every
\* call so far, and the message the user got last.
NoWebhookLog ==
    [sent |-> [u \in Users |-> <<>>], redis_ok |-> TRUE,
     last_reply |-> [u \in Users |-> "none"]]

InitOnboarding ==
    /\ ctx = DefaultContext
    /\ call = NoCall
    /\ search = NoSearch
    /\ redis = [k \in PreferenceKeys |-> Nil]
    /\ tasks = NoTasks
    /\ log = NoWebhookLog

\* One message of a user arrives and handle_webhook handles it.
HandleWebhook ==
    \E u \in Users, message \in WebhookMessages, redis_ok \in BOOLEAN :
        /\ Len(log.sent["A"]) + Len(log.sent["B"]) < MaxWebhookMessages
        /\ redis' = handle_webhook(message, u, redis, redis_ok).store
        /\ log' = [sent |-> [log.sent EXCEPT ![u] = Append(@, message)],
                   redis_ok |-> (log.redis_ok /\ redis_ok),
                   last_reply |-> [log.last_reply EXCEPT ![u] =
                        handle_webhook(message, u, redis, redis_ok).reply]]
        /\ UNCHANGED <<ctx, call, search, tasks>>

NextOnboarding == HandleWebhook

SpecOnboarding == InitOnboarding /\ [][NextOnboarding]_vars

(***************************************************************************)
(* Startup (lifespan) and the context store after it: the three connects   *)
(* in order, then calls of the context service while the application runs. *)
(***************************************************************************)
\* What lifespan does when the connect of a service raises: it logs and
\* goes on for the two Redis services and re-raises for MongoDB.
fatal_always(service) == TRUE

fatal(service) == service = "mongodb"

\* The outcomes of ContextService.connect: the ping succeeds; the call
\* raises before redis_client is assigned; redis_client is assigned and the
\* ping raises.
ConnectOutcomes == {"connected", "no_client", "no_server"}

NotStarted ==
    [pc |-> "redis_context",
     services_status |-> [redis_context |-> FALSE, redis_preferences |-> FALSE,
                          mongodb |-> FALSE],
     context_client |-> None, mongodb_connect |-> "pending", stopped_by |-> None]

NoServiceCall ==
    [op |-> "none", user |-> "A", usable |-> TRUE, returned |-> None,
     raised |-> None, calls |-> 0]

InitStartup ==
    /\ ctx = DefaultContext
    /\ call = NotStarted
    /\ search = NoSearch
    /\ redis = EmptyRedis
    /\ tasks = NoTasks
    /\ log = NoServiceCall

\* lifespan after the connect of a service: the status is set when the
\* connect returned; when it raised, startup stops if the service is fatal.
Connected(service, ok, next, client) ==
    call' = [call EXCEPT
               !.services_status[service] = ok,
               !.context_client = client,
               !.mongodb_connect = IF service # "mongodb" THEN @
                                   ELSE IF ok THEN "connected" ELSE "failed",
               !.pc = IF ~ok /\ fatal(service) THEN "failed" ELSE next,
               !.stopped_by = IF ~ok /\ fatal(service) THEN service ELSE @]

\* Lines 28-35: context_service.connect().
ConnectContextService ==
    /\ call.pc = "redis_context"
    /\ \E outcome \in ConnectOutcomes :
          Connected("redis_context", outcome = "connected", "redis_preferences",
                    IF outcome = "no_client" THEN None ELSE "client")
    /\ UNCHANGED <<ctx, search, redis, tasks, log>>

\* Lines 37-44: preferences_service.connect().
ConnectPreferencesService ==
    /\ call.pc = "redis_preferences"
    /\ \E ok \in BOOLEAN :
          Connected("redis_preferences", ok, "mongodb", call.context_client)
    /\ UNCHANGED <<ctx, search, redis, tasks, log>>

\* Lines 46-54 and 56-60: rag_service.connect(), then "application_ready".
ConnectMongoDB ==
    /\ call.pc = "mongodb"
    /\ \E ok \in BOOLEAN : Connected("mongodb", ok, "ready", call.context_client)
    /\ UNCHANGED <<ctx, search, redis, tasks, log>>

\* Can a call of the context service reach Redis?  Not without a client,
\* and not while the server does not answer.
Usable(server_up) == call.context_client # None /\ server_up

\* save_context as a call: True and the context stored, or False (the
\* exception is caught at line 98).
SaveContextReturns(context, store, usable) ==
    IF usable
    THEN [store |-> save_context(context, store), returned |-> TRUE, raised |-> None]
    ELSE [store |-> store, returned |-> FALSE, raised |-> None]

\* add_message as a call: get_context, the append, save_context.
AddMessageReturns(user_id, content, store, usable) ==
    SaveContextReturns(
        [get_context(user_id, store, usable) EXCEPT
            !.chat_history = Append(@, Entry("user", content))],
        store, usable)

\* The record of a call of the context service that gave r.
Served(op, u, usable, r) ==
    /\ call.pc = "ready"
    /\ log.calls < MaxServiceCalls
    /\ redis' = r.store
    /\ log' = [op |-> op, user |-> u, usable |-> usable,
               returned |-> r.returned, raised |-> r.raised,
               calls |-> log.calls + 1]
    /\ UNCHANGED <<ctx, call, search, tasks>>

GetContextServed ==
    \E u \in Users, server_up \in BOOLEAN :
        Served("get_context", u, Usable(server_up),
               [store |-> redis, raised |-> None,
                returned |-> get_context(u, redis, Usable(server_up))])

SaveContextServed ==
    \E u \in Users, server_up \in BOOLEAN :
        Served("save_context", u, Usable(server_up),
               SaveContextReturns(FreshContext(u), redis, Usable(server_up)))

AddMessageServed ==
    \E u \in Users, server_up \in BOOLEAN :
        Served("add_message", u, Usable(server_up),
               AddMessageReturns(u, log.calls + 1, redis, Usable(server_up)))

NextStartup ==
    \/ ConnectContextService
    \/ ConnectPreferencesService
    \/ ConnectMongoDB
    \/ GetContextServed
    \/ SaveContextServed
    \/ AddMessageServed

SpecStartup == InitStartup /\ [][NextStartup]_vars

(***************************************************************************)
(* LanguageDetector.detect on its own. A text is a sequence of words       *)
(* separated by single spaces.                                             *)
(***************************************************************************)
\* An English indicator word, a romanised Urdu word of six letters, a word
\* in Urdu script, a single letter and a longer English word.
DetectorWords == {"hello", "bukhar", "urdu_script", "a", "stomach"}

DetectorTexts == SeqsUpTo(DetectorWords, MaxDetectLen)

\* len(word); the Urdu-script word stands for a word of four letters.
WordLen(w) ==
    CASE w = "hello" -> 5 [] w = "bukhar" -> 6 [] w = "urdu_script" -> 4
      [] w = "a" -> 1 [] w = "stomach" -> 7

\* Does the word hold a character of urdu_pattern?
HasUrduChar(w) == w = "urdu_script"

\* The entries of english_indicators that occur in a word.
english_indicators ==
    {"doctor", "appointment", "time", "when", "where", "help", "need", "want",
     "think", "hello", "hi", "please"}

RECURSIVE SumLen(_)
SumLen(text) ==
    IF text = <<>> THEN 0 ELSE WordLen(Head(text)) + SumLen(Tail(text))

\* len(text.strip())
StrippedLen(text) == IF text = <<>> THEN 0 ELSE SumLen(text) + Len(text) - 1

\* The methods of str that detect names: line 42 calls c.isacii().
str_methods == {"lower", "strip", "split", "isascii"}

\* detect (lines 26-46). The branch at line 42 only logs; evaluating its
\* second operand calls c.isacii() on the first character of the text.
detect(text) ==
    LET urdu_chars == Cardinality({i \in 1..Len(text) : HasUrduChar(text[i])})
        english_score ==
            Cardinality({w \in english_indicators :
                            \E i \in 1..Len(text) : text[i] = w})
        avg_below_6 == text # <<>> /\ SumLen(text) < 6 * Len(text)
    IN  IF text = <<>> \/ StrippedLen(text) < 2
        THEN [returned |-> URDU, raised |-> None]
        ELSE IF urdu_chars > 0
        THEN [returned |-> URDU, raised |-> None]
        ELSE IF english_score > 0
        THEN [returned |-> URDU, raised |-> None]
        ELSE IF avg_below_6 /\ "isacii" \notin str_methods
        THEN [returned |-> None, raised |-> "AttributeError"]
        ELSE [returned |-> URDU, raised |-> None]

InitDetector ==
    /\ ctx = DefaultContext
    /\ call \in [op : {"input"}, text : DetectorTexts, returned : {None},
                  raised : {None}]
    /\ search = NoSearch
    /\ redis = EmptyRedis
    /\ tasks = NoTasks
    /\ log = NoLog

Detect ==
    /\ call.op = "input"
    /\ call' = [call EXCEPT !.op = "detect",
                            !.returned = detect(call.text).returned,
                            !.raised = detect(call.text).raised]
    /\ UNCHANGED <<ctx, search, redis, tasks, log>>

NextDetector == Detect

SpecDetector == InitDetector /\ [][NextDetector]_vars

(***************************************************************************)
(* The handlers on a stored context: get_context returns whatever context  *)
(* was saved for the user, and one handler call is applied to it.          *)
(***************************************************************************)
\* The severity question asks for a number from 1 to MaxSeverityScale.
MaxSeverityScale == 10

StoredSymptomData ==
    [chief_complaint : {"general complaint"}, duration : Durations,
     severity : Severities \cup {SEVERE_URDU}, additional_symptoms : {<<>>},
     severity_scale : 0..MaxSeverityScale]

StoredContexts ==
    [conversation_state : ConversationState,
     symptom_data : StoredSymptomData \cup {NoSymptomData},
     risk_level : {None, "emergency"}]

InitStored ==
    /\ ctx \in StoredContexts
    /\ call = NoCall
    /\ search = NoSearch
    /\ redis = EmptyRedis
    /\ tasks = NoTasks
    /\ log = NoLog

\* The context and the call record after a handler call that gave r: the
\* record keeps the context and the inputs of the call, and its result.
ReturnsStored(op, r, user_query, language) ==
    /\ ctx' = r.ctx
    /\ call' = [op |-> op, before |-> ctx, user_query |-> user_query,
                language |-> language, reply |-> r.reply, raised |-> r.raised,
                trace |-> r.trace, searched |-> r.searched,
                extracted |-> r.extracted]
    /\ UNCHANGED <<search, redis, tasks, log>>

\* One assess_risk call on the stored context.
AssessRisk ==
    /\ call.op = "none"
    /\ \E language \in Language :
          ReturnsStored("assess_risk", assess_risk(ctx, language, search.dir),
                        <<>>, language)

\* One process_message call on the stored context.
ProcessStored ==
    /\ call.op = "none"
    /\ \E user_query \in Utterances, language \in Language :
        \E x \in (IF ctx.conversation_state = GATHERING_SYMPTOMS
                  THEN ExtractorOutcomes ELSE {NotCalled}) :
            ReturnsStored("process_message",
                process_message(user_query, ctx, language,
                                IF x = NotCalled THEN NotCalled ELSE x.parsed_data,
                                search.dir),
                user_query, language)

NextStored == AssessRisk \/ ProcessStored

SpecStored == InitStored /\ [][NextStored]_vars

(***************************************************************************)
(* The context store under concurrent tasks. Every await on Redis is a     *)
(* point where another task may run, and every Redis command may fail.     *)
(***************************************************************************)
InitStore ==
    /\ ctx = DefaultContext
    /\ call = NoCall
    /\ search = NoSearch
    /\ redis = EmptyRedis
    /\ tasks = NoTasks
    /\ log = NoLog

\* add_message up to its read (line 105): get_context for the user.
AddMessageRead(t, max) ==
    /\ tasks[t].phase = "idle"
    /\ log.next <= max
    /\ \E u \in Users, read_ok \in BOOLEAN :
          tasks' = [tasks EXCEPT ![t] =
                      [op |-> "add_message", phase |-> "read", user |-> u,
                       content |-> log.next,
                       local |-> get_context(u, redis, read_ok),
                       read_ok |-> read_ok, read_version |-> log.version[u]]]
    /\ log' = [log EXCEPT !.next = @ + 1]
    /\ UNCHANGED <<ctx, call, search, redis>>

\* The context add_message hands to save_context (lines 106-110).
Appended(t) ==
    [tasks[t].local EXCEPT
        !.chat_history = Append(@, Entry("user", tasks[t].content))]

\* The key has been written or deleted since the task read it.
Stale(t) == tasks[t].read_version # log.version[tasks[t].user]

\* add_message from its append to its return (lines 106-111): save_context
\* stores the context and the call returns True.
AddMessageWrite(t) ==
    /\ tasks[t].op = "add_message"
    /\ tasks[t].phase = "read"
    /\ redis' = save_context(Appended(t), redis)
    /\ log' = [log EXCEPT
                  !.arrived[tasks[t].user] = Append(@, tasks[t].content),
                  !.version[tasks[t].user] = @ + 1,
                  !.lossless[tasks[t].user] = @ /\ tasks[t].read_ok /\ ~Stale(t),
                  !.raced[tasks[t].user] = @ \/ Stale(t),
                  !.saved[tasks[t].user] = TRUE,
                  !.since_save[tasks[t].user] = 0]
    /\ tasks' = [tasks EXCEPT ![t] = IdleTask]
    /\ UNCHANGED <<ctx, call, search>>

\* The same, when the write fails: save_context returns False (line 100).
AddMessageWriteFails(t) ==
    /\ tasks[t].op = "add_message"
    /\ tasks[t].phase = "read"
    /\ tasks' = [tasks EXCEPT ![t] = IdleTask]
    /\ UNCHANGED <<ctx, call, search, redis, log>>

\* clear_context: the delete succeeds and the call returns True.
ClearContext(t) ==
    /\ tasks[t].phase = "idle"
    /\ \E u \in Users :
          /\ redis[context_key(u)] # Nil
          /\ redis' = clear_context(u, redis)
          /\ log' = [log EXCEPT !.arrived[u] = <<>>, !.version[u] = @ + 1,
                                !.lossless[u] = TRUE, !.raced[u] = FALSE,
                                !.saved[u] = FALSE]
    /\ UNCHANGED <<ctx, call, search, tasks>>

\* get_context by a task that then holds the context.
GetContextHeld(t) ==
    /\ tasks[t].phase = "idle"
    /\ \E u \in Users, read_ok \in BOOLEAN :
          tasks' = [tasks EXCEPT ![t] =
                      [IdleTask EXCEPT !.op = "get_context", !.phase = "holding",
                                       !.user = u,
                                       !.local = get_context(u, redis, read_ok)]]
    /\ UNCHANGED <<ctx, call, search, redis, log>>

\* The utterances handled on a held context: one with an emergency keyword
\* and one without.
HeldUtterances == {<<"Stroke">>, <<"chest">>}

\* process_message on the context a task holds.
ProcessHeld(t) ==
    /\ tasks[t].phase = "holding"
    /\ \E user_query \in HeldUtterances, language \in Language :
          tasks' = [tasks EXCEPT
                      ![t].op = "process_message", ![t].phase = "processed",
                      ![t].local = process_message(user_query, tasks[t].local,
                                       language, NotCalled, search.dir).ctx]
    /\ UNCHANGED <<ctx, call, search, redis, log>>

\* The task drops the context it holds.
ReleaseHeld(t) ==
    /\ tasks[t].phase = "processed"
    /\ tasks' = [tasks EXCEPT ![t] = IdleTask]
    /\ UNCHANGED <<ctx, call, search, redis, log>>

NextStore ==
    \E t \in TaskIds :
        \/ AddMessageRead(t, MaxRacingMessages)
        \/ AddMessageWrite(t)
        \/ AddMessageWriteFails(t)
        \/ ClearContext(t)
        \/ GetContextHeld(t)
        \/ ProcessHeld(t)
        \/ ReleaseHeld(t)

SpecStore == InitStore /\ [][NextStore]_vars

(***************************************************************************)
(* The context store under one task: every call returns before the next    *)
(* one starts.                                                             *)
(***************************************************************************)
NextHistory ==
    \/ AddMessageRead("t1", MaxMessages)
    \/ AddMessageWrite("t1")
    \/ AddMessageWriteFails("t1")
    \/ ClearContext("t1")

SpecHistory == InitStore /\ [][NextHistory]_vars

(***************************************************************************)
(* The context store with the clock running: keys expire when the time     *)
(* setex gave them has passed.                                             *)
(***************************************************************************)
\* The seconds one step of the clock takes.
ClockStep == CONTEXT_TTL \div TicksPerTTL

\* Does the key run out within the next step of the clock?
Expires(store, k) == store[k] # Nil /\ store[k].ttl <= ClockStep

\* The store after one step of the clock: Redis deletes the keys whose time
\* has run out and the others have that much less time left.
Elapse(store) ==
    [k \in Keys |->
        IF store[k] = Nil \/ Expires(store, k) THEN Nil
        ELSE [store[k] EXCEPT !.ttl = @ - ClockStep]]

\* Time passes.
Tick ==
    /\ \E u \in Users : log.since_save[u] < CONTEXT_TTL
    /\ redis' = Elapse(redis)
    /\ log' = [log EXCEPT
                  !.since_save = [u \in Users |-> IF @[u] + ClockStep < CONTEXT_TTL THEN @[u] + ClockStep ELSE CONTEXT_TTL],
                  !.arrived = [u \in Users |->
                      IF Expires(redis, context_key(u)) THEN <<>> ELSE @[u]],
                  !.version = [u \in Users |->
                      IF Expires(redis, context_key(u)) THEN @[u] + 1 ELSE @[u]]]
    /\ UNCHANGED <<ctx, call, search, tasks>>

NextExpiry ==
    \/ AddMessageRead("t1", MaxRacingMessages)
    \/ AddMessageWrite("t1")
    \/ AddMessageWriteFails("t1")
    \/ ClearContext("t1")
    \/ Tick

SpecExpiry == InitStore /\ [][NextExpiry]_vars

(***************************************************************************)
(* The webhook pipeline: process_query run by concurrent tasks. A run      *)
(* reads the context, generates the answer, then calls add_message for the *)
(* user's query and add_message for the assistant's reply; each            *)
(* add_message is a read followed by a write.                              *)
(***************************************************************************)
\* The log of the pipeline: the number of the next query, whether Redis
\* answered every call so far, and whether two runs for the user overlapped.
NoPipelineLog ==
    [next |-> 1, redis_ok |-> TRUE, overlapped |-> [u \in Users |-> FALSE]]

InitPipeline ==
    /\ ctx = DefaultContext
    /\ call = NoCall
    /\ search = NoSearch
    /\ redis = EmptyRedis
    /\ tasks = NoTasks
    /\ log = NoPipelineLog

\* Another task is inside process_query for the user.
InFlight(t, u) ==
    \E t2 \in TaskIds \ {t} : tasks[t2].phase # "idle" /\ tasks[t2].user = u

\* process_query up to line 247: the context is read and the answer is
\* generated, or a step raises and the except branch sends the apology.
ProcessQueryStart(t) ==
    /\ tasks[t].phase = "idle"
    /\ log.next <= MaxPipelineQueries
    /\ \E u \in Users, raises \in BOOLEAN :
          /\ tasks' = IF raises THEN tasks
                      ELSE [tasks EXCEPT ![t] =
                              [IdleTask EXCEPT !.op = "process_query",
                                               !.phase = "generated",
                                               !.user = u,
                                               !.content = log.next]]
          /\ log' = [log EXCEPT
                        !.next = @ + 1,
                        !.overlapped[u] = @ \/ (~raises /\ InFlight(t, u))]
    /\ UNCHANGED <<ctx, call, search, redis>>

\* The read of an add_message call of the run (line 105).
PipelineRead(t, from, to) ==
    /\ tasks[t].phase = from
    /\ \E read_ok \in BOOLEAN :
          /\ tasks' = [tasks EXCEPT
                          ![t].phase = to,
                          ![t].local = get_context(tasks[t].user, redis, read_ok)]
          /\ log' = [log EXCEPT !.redis_ok = @ /\ read_ok]
    /\ UNCHANGED <<ctx, call, search, redis>>

\* A pipeline that runs the conversation handler on the context it saves.
Saved_after_process_message(context, role, content) ==
    [process_message(<<"chest">>, context, ENGLISH, NotCalled, EmptyDirectory).ctx
        EXCEPT !.chat_history = Append(@, Entry(role, content))]

\* The context add_message hands to save_context (lines 106-110).
Saved(context, role, content) ==
    [context EXCEPT !.chat_history = Append(@, Entry(role, content))]

\* A run that stores the reply before the query.
MessageRole_reply_first(phase) ==
    IF phase = "read_user" THEN "assistant" ELSE "user"

\* The role of the add_message call a run is in: the query is added as
\* "user" (line 249), then the reply as "assistant" (line 250).
MessageRole(phase) ==
    IF phase = "read_user" THEN "user" ELSE "assistant"

\* The write of an add_message call of the run (line 111); process_query
\* does not look at what add_message returns.
PipelineWrite(t, from, to) ==
    /\ tasks[t].phase = from
    /\ \E write_ok \in BOOLEAN :
          /\ redis' = IF write_ok
                      THEN save_context(Saved(tasks[t].local, MessageRole(from),
                                              tasks[t].content), redis)
                      ELSE redis
          /\ log' = [log EXCEPT !.redis_ok = @ /\ write_ok]
    /\ tasks' = [tasks EXCEPT
                    ![t] = IF to = "idle" THEN IdleTask
                           ELSE [@ EXCEPT !.phase = to, !.local = Nil]]
    /\ UNCHANGED <<ctx, call, search>>

NextPipeline ==
    \E t \in TaskIds :
        \/ ProcessQueryStart(t)
        \/ PipelineRead(t, "generated", "read_user")
        \/ PipelineWrite(t, "read_user", "wrote_user")
        \/ PipelineRead(t, "wrote_user", "read_assistant")
        \/ PipelineWrite(t, "read_assistant", "idle")

SpecPipeline == InitPipeline /\ [][NextPipeline]_vars

(***************************************************************************)
(* The webhook for users whose preferences are stored: handle_webhook and, *)
(* for a message that passes the mode gate, process_query, on a store that *)
(* holds the preferences and the contexts.                                 *)
(***************************************************************************)
\* The texts handle_command takes for commands, and a text it does not.
CommandTexts ==
    {"1", "2", "voice", "text", "settings", "help", "language", "mode"}

CommandMessages ==
    [type : {"text"}, body : CommandTexts \cup {"chest"}]
        \cup {[type |-> "audio", body |-> ""]}

\* The preferences a user can have stored.
StoredPreferences(u) ==
    {Nil} \cup {model_dump_json([user_id |-> u, language |-> l,
                                  interaction_mode |-> mode]) :
                    l \in {URDU, ENGLISH}, mode \in {VOICE, TEXT}}

\* process_query run from its first line to its last (lines 220-276): the
\* two add_message calls, or no write when a step before them raises.
process_query(from_number, content, store, raises) ==
    IF raises THEN store
    ELSE save_context(
            Saved(get_context(from_number,
                              save_context(Saved(get_context(from_number, store, TRUE),
                                                 "user", content), store),
                              TRUE),
                  "assistant", content),
            save_context(Saved(get_context(from_number, store, TRUE),
                               "user", content), store))

\* The message handled last: who sent it, the interaction mode read for the
\* sender before it, the reply, whether process_query ran, and the contexts
\* stored before it.
NoCommandLog ==
    [count |-> 0, user |-> "A", message |-> [type |-> "none", body |-> ""],
     mode |-> NOT_SET, redis_ok |-> TRUE, reply |-> "none", reached |-> FALSE,
     contexts |-> EmptyRedis]

InitCommands ==
    /\ ctx = DefaultContext
    /\ call = NoCall
    /\ search = NoSearch
    /\ \E a \in StoredPreferences("A"), b \in StoredPreferences("B") :
          redis = [k \in PreferenceKeys \cup Keys |->
                      IF k = preferences_key("A") THEN a
                      ELSE IF k = preferences_key("B") THEN b ELSE Nil]
    /\ tasks = NoTasks
    /\ log = NoCommandLog

\* One message arrives: handle_webhook, then process_query when the message
\* passed the mode gate.
HandleMessage ==
    \E u \in Users, message \in CommandMessages, redis_ok, raises \in BOOLEAN :
        /\ log.count < MaxCommandMessages
        /\ redis' = IF handle_webhook(message, u, redis, redis_ok).reply = "answer"
                    THEN process_query(u, log.count + 1, redis, raises)
                    ELSE handle_webhook(message, u, redis, redis_ok).store
        /\ log' = [count |-> log.count + 1, user |-> u, message |-> message,
                   mode |-> get_preferences(u, redis, redis_ok).interaction_mode,
                   redis_ok |-> redis_ok,
                   reply |-> handle_webhook(message, u, redis, redis_ok).reply,
                   reached |-> (handle_webhook(message, u, redis, redis_ok).reply
                                   = "answer"),
                   contexts |-> [k \in Keys |-> redis[k]]]
        /\ UNCHANGED <<ctx, call, search, tasks>>

NextCommands == HandleMessage

SpecCommands == InitCommands /\ [][NextCommands]_vars

(***************************************************************************)
(* Properties of the conversation (specification Spec).                    *)
(***************************************************************************)
IsTurn == call.op = "process_message"

\* A field that is missing or empty.
Absent(v) == v \in {None, ""}

Rank(state) ==
    CASE state = INITIAL_COMPLAINT -> 1
      [] state = GATHERING_SYMPTOMS -> 2
      [] state = RISK_ASSESSMENT -> 3
      [] state = DOCTOR_RECOMMENDATION -> 4
      [] OTHER -> 0

ReplyTemplates ==
    {"followup", "ask_missing", "emergency", "ask_location", "no_doctors", "listing"}

\* C1: a turn in INITIAL_COMPLAINT whose utterance holds an emergency keyword
\* returns the emergency message in the requested language and leaves
\* risk_level = "emergency" and conversation_state = RISK_ASSESSMENT.
C1_EmergencyReply ==
    (IsTurn /\ call.state_before = INITIAL_COMPLAINT /\ call.emergency)
        => /\ call.raised = None
           /\ call.reply = EmergencyMessage(call.language)
           /\ ctx.risk_level = "emergency"
           /\ ctx.conversation_state = RISK_ASSESSMENT

\* C2: once risk_level is "emergency", no later turn of the same context
\* changes it to "routine" or "urgent".
C2_EmergencyKept ==
    [][(ctx.risk_level = "emergency" /\ call'.op = "process_message")
          => ctx'.risk_level \notin {"routine", "urgent"}]_vars

\* C3: a turn in GATHERING_SYMPTOMS after which chief_complaint, duration or
\* severity is still absent leaves the state at GATHERING_SYMPTOMS.
C3_StaysWhileIncomplete ==
    (/\ IsTurn
     /\ call.state_before = GATHERING_SYMPTOMS
     /\ \/ Absent(ctx.symptom_data.chief_complaint)
        \/ Absent(ctx.symptom_data.duration)
        \/ Absent(ctx.symptom_data.severity))
        => ctx.conversation_state = GATHERING_SYMPTOMS

\* C3 witness: a GATHERING_SYMPTOMS turn that stored the duration the
\* extractor gave, still lacks the severity and stayed in the state.
C3_Witness ==
    /\ IsTurn
    /\ call.state_before = GATHERING_SYMPTOMS
    /\ call.extractor.is_object
    /\ call.extractor.parsed_data.duration = "2 days"
    /\ ctx.symptom_data.duration = "2 days"
    /\ Absent(ctx.symptom_data.severity)
    /\ ctx.conversation_state = GATHERING_SYMPTOMS

\* C4: the GATHERING_SYMPTOMS turn after which the complaint, the duration
\* and the severity are all present returns with conversation_state =
\* DOCTOR_RECOMMENDATION and risk_level "routine" or "urgent", having passed
\* RISK_ASSESSMENT within the call.
C4_RecommendsInSameTurn ==
    (/\ IsTurn
     /\ call.state_before = GATHERING_SYMPTOMS
     /\ call.extractor.parsed_data.kind = "dict"
     /\ ~Absent(ctx.symptom_data.chief_complaint)
     /\ ~Absent(ctx.symptom_data.duration)
     /\ ~Absent(ctx.symptom_data.severity))
        => /\ call.raised = None
           /\ call.trace = <<RISK_ASSESSMENT, DOCTOR_RECOMMENDATION>>
           /\ ctx.conversation_state = DOCTOR_RECOMMENDATION
           /\ ctx.risk_level \in {"routine", "urgent"}

\* C5: a turn in DOCTOR_RECOMMENDATION on a context without a user location
\* returns the location request in the requested language and changes
\* neither conversation_state nor symptom_data nor risk_level.
C5_AsksForLocation ==
    [][(ctx.conversation_state = DOCTOR_RECOMMENDATION
          /\ call'.op = "process_message")
          => /\ call'.raised = None
             /\ call'.reply = ask_for_location(call'.language)
             /\ ctx' = ctx]_vars

\* C6: no turn raises, and every turn's reply is one of the templates.
C6_NeverRaises ==
    IsTurn => (call.raised = None /\ call.reply.kind \in ReplyTemplates)

\* C7: every assignment a turn makes to conversation_state moves it to the
\* next state of INITIAL_COMPLAINT < GATHERING_SYMPTOMS < RISK_ASSESSMENT <
\* DOCTOR_RECOMMENDATION, except the emergency step from INITIAL_COMPLAINT
\* to RISK_ASSESSMENT; no turn ends in an earlier state than it started in,
\* and a turn in DOCTOR_RECOMMENDATION assigns nothing.
C7_ForwardOnly ==
    IsTurn =>
        LET path == <<call.state_before>> \o call.trace
        IN  /\ \A i \in 1..(Len(path) - 1) :
                  \/ Rank(path[i + 1]) = Rank(path[i]) + 1
                  \/ /\ path[i] = INITIAL_COMPLAINT
                     /\ path[i + 1] = RISK_ASSESSMENT
                     /\ call.emergency
            /\ ctx.conversation_state = path[Len(path)]
            /\ Rank(ctx.conversation_state) >= Rank(call.state_before)
            /\ call.state_before = DOCTOR_RECOMMENDATION => call.trace = <<>>

\* C7 witness: a turn that went from GATHERING_SYMPTOMS through
\* RISK_ASSESSMENT to DOCTOR_RECOMMENDATION.
C7_Witness ==
    /\ IsTurn
    /\ call.state_before = GATHERING_SYMPTOMS
    /\ call.trace = <<RISK_ASSESSMENT, DOCTOR_RECOMMENDATION>>
    /\ ctx.conversation_state = DOCTOR_RECOMMENDATION

\* C10: when the generator's answer is not read as a JSON object, the
\* extractor gives the empty mapping and the GATHERING_SYMPTOMS turn returns
\* the ask-missing-info message, changing neither the state nor the
\* symptom data.
C10_UnparsableReasks ==
    [][(/\ ctx.conversation_state = GATHERING_SYMPTOMS
        /\ call'.op = "process_message"
        /\ ~call'.extractor.is_object)
          => /\ call'.extractor.parsed_data = EmptyDict
             /\ call'.raised = None
             /\ call'.reply = ask_missing_info(ctx.symptom_data, call'.language)
             /\ ctx' = ctx]_vars

\* The user location a context holds: None when it holds none.
UserLocation(c) ==
    IF "user_location" \in DOMAIN c THEN c.user_location ELSE None

\* C12: a turn runs the matcher only on a context whose user location is
\* set, and a turn in DOCTOR_RECOMMENDATION does not run the extractor and
\* leaves symptom_data as it was.
C12_NoReextraction ==
    [][call'.op = "process_message"
          => /\ call'.searched => UserLocation(ctx) # None
             /\ ctx.conversation_state = DOCTOR_RECOMMENDATION
                   => /\ ~call'.extracted
                      /\ ctx'.symptom_data = ctx.symptom_data]_vars

\* C12 witness: a turn in DOCTOR_RECOMMENDATION whose utterance held an
\* emergency keyword ran neither the extractor nor the matcher and kept the
\* gathered duration.
C12_Witness ==
    /\ IsTurn
    /\ call.state_before = DOCTOR_RECOMMENDATION
    /\ call.emergency
    /\ ~call.extracted
    /\ ~call.searched
    /\ ctx.conversation_state = DOCTOR_RECOMMENDATION
    /\ ctx.symptom_data.duration = "2 days"

\* C13: a turn in GATHERING_SYMPTOMS, RISK_ASSESSMENT or
\* DOCTOR_RECOMMENDATION never sets risk_level to "emergency", whatever the
\* utterance holds.
C13_EmergencyOnlyInitially ==
    [][(/\ call'.op = "process_message"
        /\ ctx.conversation_state \in
              {GATHERING_SYMPTOMS, RISK_ASSESSMENT, DOCTOR_RECOMMENDATION}
        /\ ctx.risk_level # "emergency")
          => ctx'.risk_level # "emergency"]_vars

\* C13 witness: a turn in GATHERING_SYMPTOMS whose utterance held an
\* emergency keyword left risk_level unset.
C13_Witness ==
    /\ IsTurn
    /\ call.state_before = GATHERING_SYMPTOMS
    /\ call.emergency
    /\ call.extracted
    /\ ctx.risk_level = None

\* C14: in every turn after the emergency short-circuit, until the context
\* is created anew, conversation_state is never assigned GATHERING_SYMPTOMS,
\* the extractor is not run, and the reply is neither the follow-up
\* questions nor the ask-missing-info message.
C14_NoQuestionsAfterEmergency ==
    [][(call.after_emergency /\ call'.op = "process_message")
          => /\ ctx'.conversation_state # GATHERING_SYMPTOMS
             /\ \A i \in 1..Len(call'.trace) : call'.trace[i] # GATHERING_SYMPTOMS
             /\ ~call'.extracted
             /\ call'.reply.kind \notin {"followup", "ask_missing"}]_vars

\* C14 witness: the turn after the short-circuit ran assess_risk from
\* RISK_ASSESSMENT on a context that holds no duration and no severity.
C14_Witness ==
    /\ IsTurn
    /\ call.after_emergency
    /\ call.state_before = RISK_ASSESSMENT
    /\ ~call.extracted
    /\ ctx.symptom_data.duration = None
    /\ ctx.symptom_data.severity = None
    /\ ctx.conversation_state = DOCTOR_RECOMMENDATION

\* What the extractor of a turn returned to gather_symptoms, as fields: a
\* value that is no mapping gives none.
Returned_duration ==
    IF call'.extractor.parsed_data.kind = "dict"
    THEN call'.extractor.parsed_data.duration ELSE None

Returned_severity ==
    IF call'.extractor.parsed_data.kind = "dict"
    THEN call'.extractor.parsed_data.severity ELSE None

Returned_additional_symptoms ==
    IF call'.extractor.parsed_data.kind = "dict"
    THEN call'.extractor.parsed_data.additional_symptoms ELSE <<>>

\* C15: a turn in GATHERING_SYMPTOMS keeps a duration or severity that is
\* present unless the extractor returned a non-empty one, which replaces
\* it, and additional_symptoms becomes its previous value followed by the
\* returned items; a turn in RISK_ASSESSMENT or DOCTOR_RECOMMENDATION leaves
\* symptom_data as it was.
C15_Accumulates ==
    [][call'.op = "process_message"
          => /\ ctx.conversation_state = GATHERING_SYMPTOMS
                   => /\ call'.extracted
                      /\ ctx'.symptom_data.chief_complaint
                            = ctx.symptom_data.chief_complaint
                      /\ ctx'.symptom_data.duration
                            = (IF Absent(Returned_duration)
                               THEN ctx.symptom_data.duration
                               ELSE Returned_duration)
                      /\ ctx'.symptom_data.severity
                            = (IF Absent(Returned_severity)
                               THEN ctx.symptom_data.severity
                               ELSE Returned_severity)
                      /\ ctx'.symptom_data.additional_symptoms
                            = ctx.symptom_data.additional_symptoms
                                 \o Returned_additional_symptoms
             /\ ctx.conversation_state \in {RISK_ASSESSMENT, DOCTOR_RECOMMENDATION}
                   => ctx'.symptom_data = ctx.symptom_data]_vars

\* C15 witness: a GATHERING_SYMPTOMS turn whose extractor returned no
\* duration and one symptom kept the stored duration and appended the
\* symptom to an equal one already stored.
C15_Witness ==
    /\ IsTurn
    /\ call.state_before = GATHERING_SYMPTOMS
    /\ call.extracted
    /\ call.extractor.parsed_data.kind = "dict"
    /\ call.extractor.parsed_data.duration = None
    /\ call.extractor.parsed_data.additional_symptoms = <<"nausea">>
    /\ ctx.symptom_data.duration = "2 days"
    /\ ctx.symptom_data.additional_symptoms = <<"nausea", "nausea">>

\* C16: the reply of a GATHERING_SYMPTOMS turn that cannot proceed holds the
\* duration question exactly when the duration is absent and the severity
\* question exactly when the severity is absent, and the state stays
\* GATHERING_SYMPTOMS.
C16_AsksExactlyMissing ==
    (/\ IsTurn
     /\ call.state_before = GATHERING_SYMPTOMS
     /\ call.raised = None
     /\ ~has_enough_info(ctx.symptom_data))
        => /\ call.reply.kind = "ask_missing"
           /\ (\E i \in 1..Len(call.reply.bullets) :
                   call.reply.bullets[i].field = "duration")
                 <=> Absent(ctx.symptom_data.duration)
           /\ (\E i \in 1..Len(call.reply.bullets) :
                   call.reply.bullets[i].field = "severity")
                 <=> Absent(ctx.symptom_data.severity)
           /\ Len(call.reply.bullets) <= 2
           /\ ctx.conversation_state = GATHERING_SYMPTOMS

\* C16 witness: a turn that stored the duration and still lacks the
\* severity asked the severity question only.
C16_Witness ==
    /\ IsTurn
    /\ call.state_before = GATHERING_SYMPTOMS
    /\ call.reply.kind = "ask_missing"
    /\ ctx.symptom_data.duration = "2 days"
    /\ Absent(ctx.symptom_data.severity)
    /\ Len(call.reply.bullets) = 1
    /\ call.reply.bullets[1].field = "severity"
    /\ ctx.conversation_state = GATHERING_SYMPTOMS

(***************************************************************************)
(* Properties of the matcher (specification SpecMatcher).                  *)
(***************************************************************************)
Searched == search.phase = "done"

\* The speciality the matcher is to search: the mapped one, else the default.
SearchedSpeciality ==
    IF map_symptoms_to_speciality(search.extracted_symptoms, search.dir).kind = "dict"
    THEN map_symptoms_to_speciality(search.extracted_symptoms, search.dir).speciality
    ELSE "General Medicine"

\* The candidate branches: the nearest three.
Candidates == Take(search.dir.branches, 3)

\* The least distance of a doctor's branches among the candidates.
MinDistanceOf(d) ==
    LET ds == {Candidates[i].distance_km :
                  i \in {j \in 1..Len(Candidates) :
                            Candidates[j].branch_id \in ToSet(d.branches)}}
    IN  IF ds = {} THEN Infinity ELSE Min(ds)

\* The doctors of the searched speciality at a candidate branch.
Matching ==
    SelectSeq(search.dir.doctors,
              LAMBDA d : /\ d.speciality = SearchedSpeciality
                         /\ MinDistanceOf(d) < Infinity)

\* C8: with a location and a working directory the matcher returns the
\* matching doctors by ascending minimum distance to their retained
\* branches, doctors at the same distance in the directory's order.
C8_NearestFirst ==
    (Searched /\ search.user_location # None /\ search.dir.fail = "none")
        => /\ Len(search.doctors) = Len(Matching)
           /\ {search.doctors[i].name : i \in 1..Len(search.doctors)}
                 = {Matching[i].name : i \in 1..Len(Matching)}
           /\ \A i, j \in 1..Len(search.doctors) :
                 i < j =>
                    \/ MinDistanceOf(search.doctors[i]) < MinDistanceOf(search.doctors[j])
                    \/ /\ MinDistanceOf(search.doctors[i]) = MinDistanceOf(search.doctors[j])
                       /\ search.doctors[i].name < search.doctors[j].name

\* A lookup or a computation of the search failed.
StageFailed ==
    \/ search.dir.fail = "doctors"
    \/ search.dir.fail = "mapping" /\ search.extracted_symptoms # <<>>
    \/ search.dir.fail = "branches" /\ search.user_location # None
    \/ smart_symptom_search_try("", search.user_location,
                                search.extracted_symptoms, search.dir).raised # None

\* C9: smart_symptom_search never raises, and returns the empty list when
\* the symptom-mapping lookup, the nearest-branch query, the doctor query or
\* the ranking fails.
C9_EmptyOnFailure ==
    Searched => /\ search.raised = None
                /\ StageFailed => search.doctors = <<>>

\* C9 witness: a search without location whose doctor query failed, on a
\* directory that holds a General Medicine doctor, returned the empty list.
C9_Witness ==
    /\ Searched
    /\ search.user_location = None
    /\ search.extracted_symptoms = <<>>
    /\ search.dir.fail = "doctors"
    /\ \E i \in 1..Len(search.dir.doctors) :
          search.dir.doctors[i].speciality = "General Medicine"
    /\ search.raised = None
    /\ search.doctors = <<>>

\* C23: a search that needs no branch lookup, on a working directory, issues
\* its doctor query with the speciality the symptom mapping gives for the
\* symptoms, and with "General Medicine" when the symptom list is empty or
\* no mapping is found.
C23_SearchesMappedSpeciality ==
    (Searched /\ search.user_location = None /\ search.dir.fail = "none")
        => search.queried = SearchedSpeciality

(***************************************************************************)
(* Properties of the handlers on a stored context (specification           *)
(* SpecStored).                                                            *)
(***************************************************************************)
\* C11: assess_risk sets risk_level to "urgent" when severity_scale is 8 or
\* more or the severity is a high-severity label, and to "routine"
\* otherwise, for every severity_scale.
C11_RiskThreshold ==
    (call.op = "assess_risk" /\ call.before.symptom_data # NoSymptomData)
        => ctx.risk_level =
              (IF \/ call.before.symptom_data.severity_scale >= 8
                  \/ call.before.symptom_data.severity \in {"severe", SEVERE_URDU}
               THEN "urgent" ELSE "routine")

\* C11 witness: assess_risk on a severity_scale of 8 with a mild label set
\* "urgent".
C11_Witness ==
    /\ call.op = "assess_risk"
    /\ call.before.symptom_data # NoSymptomData
    /\ call.before.symptom_data.severity_scale = 8
    /\ call.before.symptom_data.severity = "mild"
    /\ ctx.risk_level = "urgent"

\* The call on the stored context had the outcome r.
SameOutcome(r) ==
    /\ call.reply = r.reply
    /\ call.raised = r.raised
    /\ ctx = r.ctx

\* C17: process_message on a context in APPOINTMENT_BOOKING gives the reply
\* and the conversation_state, symptom_data and risk_level that the same
\* utterance and language give from INITIAL_COMPLAINT, and raises nothing.
C17_UnknownStateAsInitial ==
    (call.op = "process_message"
        /\ call.before.conversation_state = APPOINTMENT_BOOKING)
        => /\ SameOutcome(process_message(call.user_query,
                  [call.before EXCEPT !.conversation_state = INITIAL_COMPLAINT],
                  call.language, NotCalled, search.dir))
           /\ call.raised = None

(***************************************************************************)
(* Properties of the context store (specifications SpecHistory and         *)
(* SpecStore).                                                             *)
(***************************************************************************)
\* The chat_history stored for a user, and the contents of its entries.
StoredHistory(u) ==
    IF redis[context_key(u)] = Nil THEN <<>>
    ELSE parse_context(redis[context_key(u)].data).chat_history

StoredContents(u) ==
    [i \in 1..Len(StoredHistory(u)) |-> StoredHistory(u)[i].content]

IsSuffix(s, t) ==
    /\ Len(s) <= Len(t)
    /\ s = SubSeq(t, Len(t) - Len(s) + 1, Len(t))

\* C18: after any sequence of calls, each returned before the next, the
\* stored chat_history has at most max_history entries, they are the most
\* recently stored messages in arrival order, and when no read failed they
\* are the last max_history of all the messages stored: the oldest are the
\* ones dropped.
C18_HistoryCapped ==
    \A u \in Users :
        /\ Len(StoredHistory(u)) <= max_history
        /\ IsSuffix(StoredContents(u), log.arrived[u])
        /\ log.lossless[u] =>
              StoredContents(u) = LastN(log.arrived[u], max_history)

\* C18 witness: more than max_history messages were stored for a user, and
\* the first one is no longer in the stored history.
C18_Witness ==
    \E u \in Users :
        /\ log.lossless[u]
        /\ Len(log.arrived[u]) > max_history
        /\ Len(StoredHistory(u)) = max_history
        /\ StoredContents(u)[1] = log.arrived[u][2]
        /\ StoredContents(u)[max_history] = log.arrived[u][Len(log.arrived[u])]

\* C19: when every add_message of a user wrote a context that it had read
\* successfully and that nobody had written since, every message whose
\* call returned True is in the stored history (as long as they fit in it).
C19_SequentialKeepsAll ==
    \A u \in Users :
        (log.lossless[u] /\ Len(log.arrived[u]) <= max_history)
            => \A i \in 1..Len(log.arrived[u]) :
                  \E j \in 1..Len(StoredHistory(u)) :
                      StoredHistory(u)[j].content = log.arrived[u][i]

\* C19 witness: two add_message calls of one user interleaved their reads
\* and writes, both returned True, and the stored history holds only the
\* message of the last writer.
C19_Witness ==
    \E u \in Users :
        /\ log.raced[u]
        /\ Len(log.arrived[u]) = 2
        /\ Len(StoredHistory(u)) = 1
        /\ StoredContents(u)[1] = log.arrived[u][2]
        /\ \A t \in TaskIds : tasks[t].phase = "idle"

\* C20: a step changes the stored context of a user only if it is a write
\* or a delete for that user, the context a task holds is its own user's,
\* and process_message on a held context changes neither the store nor
\* what another task holds.
C20_UsersIndependent ==
    [][/\ \A u \in Users :
            redis'[context_key(u)] # redis[context_key(u)]
                => log'.version[u] # log.version[u]
       /\ \A t \in TaskIds :
            tasks'[t].local # Nil => tasks'[t].local.user_id = tasks'[t].user
       /\ \A t \in TaskIds :
            (tasks[t].phase = "holding" /\ tasks'[t].phase = "processed")
                => /\ redis' = redis
                   /\ \A o \in TaskIds \ {t} : tasks'[o] = tasks[o]]_vars

\* C20 witness: both users have a stored history, each with its own
\* message, while a task has run process_message on the context of one of
\* them.
C20_Witness ==
    /\ Len(StoredHistory("A")) = 1
    /\ Len(StoredHistory("B")) = 1
    /\ StoredContents("A") # StoredContents("B")
    /\ \E t \in TaskIds :
          /\ tasks[t].phase = "processed"
          /\ tasks[t].user = "A"
          /\ tasks[t].local.chat_history = StoredHistory("A")
          /\ tasks[t].local.conversation_state # INITIAL_COMPLAINT

(***************************************************************************)
(* Properties of the store with the clock running (SpecExpiry).            *)
(***************************************************************************)
\* C21: a key that is set has CONTEXT_TTL minus the time since the user's
\* last successful save left to live (every save restarts the time), and
\* once a full CONTEXT_TTL has passed without a save, or the context has
\* been cleared, get_context returns the default context.
C21_ContextExpires ==
    \A u \in Users :
        /\ redis[context_key(u)] # Nil =>
              /\ log.saved[u]
              /\ redis[context_key(u)].ttl = CONTEXT_TTL - log.since_save[u]
        /\ (~log.saved[u] \/ log.since_save[u] >= CONTEXT_TTL) =>
              get_context(u, redis, TRUE) = FreshContext(u)

\* A context was saved, saved again after some time, and then a full
\* CONTEXT_TTL passed without a save: the default context is read.
C21_Witness ==
    \E u \in Users :
        /\ log.saved[u]
        /\ log.version[u] >= 3
        /\ log.since_save[u] = CONTEXT_TTL
        /\ get_context(u, redis, TRUE) = FreshContext(u)

(***************************************************************************)
(* Invocations in one turn (specification Spec).                           *)
(***************************************************************************)
\* C22: one process_message call invokes the extractor at most once and
\* the matcher at most once; an extractor that was invoked was invoked
\* exactly once, whatever it returned.
C22_NoRetries ==
    IsTurn =>
        /\ call.extractor_calls <= 1
        /\ call.matcher_calls <= 1
        /\ call.extracted => call.extractor_calls = 1
        /\ call.searched => call.matcher_calls = 1

\* A turn whose extractor run failed (it returned the empty dict) and was
\* not repeated.
C22_Witness ==
    /\ IsTurn
    /\ call.extracted
    /\ call.extractor.parsed_data = EmptyDict
    /\ call.reply.kind = "ask_missing"
    /\ call.extractor_calls = 1

(***************************************************************************)
(* Properties of extract_complaint (specification SpecComplaint).          *)
(***************************************************************************)
\* Does the keyword of entry i of the table occur in the utterance, case
\* ignored?
Occurs(i, user_query) == Contains(Lower(user_query), <<complaints[i][1]>>)

\* C24: extract_complaint returns the complaint of the first entry of the
\* keyword table whose keyword occurs in the utterance, case ignored,
\* "general complaint" when no keyword occurs, and never the empty string.
C24_FirstKeywordWins ==
    call.op = "extract_complaint" =>
        /\ call.result \notin {"", None}
        /\ (\A i \in 1..Len(complaints) : ~Occurs(i, call.user_query))
              => call.result = "general complaint"
        /\ \A i \in 1..Len(complaints) :
              (Occurs(i, call.user_query)
                    /\ \A j \in 1..(i - 1) : ~Occurs(j, call.user_query))
                  => call.result = complaints[i][2]

\* An utterance that names a later keyword of the table first and the first
\* keyword, capitalised, second: the first entry's complaint is returned.
C24_Witness ==
    /\ call.op = "extract_complaint"
    /\ call.user_query = <<"dard", "Chest">>
    /\ call.result = "chest pain"

(***************************************************************************)
(* Properties of parse_symptom_answers (specification SpecParser).         *)
(***************************************************************************)
\* The answers that hold one JSON object bare, inside a json fence, inside
\* a plain fence, or followed by other text.
ObjectAnswers ==
    { <<"{...}">>, <<FENCE_JSON, "{...}", FENCE>>, <<FENCE, "{...}", FENCE>>,
      <<"{...}", "text">> }

\* C25: the extractor returns the fields of the JSON object of the answer
\* when the object is bare, wrapped in a json fence or in a plain fence, or
\* followed by other text.
C25_ParsesFirstObject ==
    (call.op = "parse_symptom_answers" /\ call.response \in ObjectAnswers)
        => call.result = call.obj

(***************************************************************************)
(* Properties of the formatter (specification SpecFormatter).              *)
(***************************************************************************)
IsListing == call.op = "format_doctor_recommendation"

\* The positions of a part in the listing.
PartsAt(part) == {i \in 1..Len(call.reply.parts) : call.reply.parts[i] = part}

\* The listing carries the note exactly when risk_level is "urgent".
NoteIffUrgent == (PartsAt("urgent_note") # {}) <=> (call.risk_level = "urgent")

\* C26 as stated: the listing carries the urgency note if and only if
\* risk_level is "urgent", and the note stands before every doctor entry.
C26_NotePrepended ==
    IsListing =>
        /\ NoteIffUrgent
        /\ \A i \in PartsAt("urgent_note"), j \in PartsAt("doctor") : i < j

\* C26 amended: the listing carries the urgency note if and only if
\* risk_level is "urgent"; the note occurs once, after every doctor entry
\* and after the facilities block, right before the closing information
\* lines.
C26_NoteAfterEntries ==
    IsListing =>
        /\ NoteIffUrgent
        /\ Cardinality(PartsAt("urgent_note")) <= 1
        /\ \A i \in PartsAt("urgent_note") :
              /\ \A j \in PartsAt("doctor") \cup PartsAt("facilities") : j < i
              /\ i + 1 \in PartsAt("information")

\* An urgent listing of three doctors, cut from four, with the note after
\* the entries.
C26_Witness ==
    /\ IsListing
    /\ call.risk_level = "urgent"
    /\ Len(call.doctors) = MaxListed
    /\ Cardinality(PartsAt("doctor")) = 3
    /\ PartsAt("urgent_note") = {Len(call.reply.parts) - 1}

\* The template language the formatter is to use for a language value.
SelectedTemplate(language) == IF language = URDU THEN URDU ELSE ENGLISH

\* C27: every message of the formatter is in the Urdu template for
\* Language.URDU and in the English template for Language.ENGLISH and for
\* any other value; the bullets of ask-missing-info follow the header.
C27_SelectedByLanguage ==
    call.op \in {"generate_followup_questions", "ask_missing_info",
                 "ask_for_location", "no_doctors_available",
                 "format_doctor_recommendation"} =>
        /\ call.reply.lang = SelectedTemplate(call.language)
        /\ call.op = "ask_missing_info" =>
              \A i \in 1..Len(call.reply.bullets) :
                  call.reply.bullets[i].lang = SelectedTemplate(call.language)

\* Language.AUTO: an ask-missing-info message with both bullets, header and
\* bullets in English.
C27_Witness ==
    /\ call.op = "ask_missing_info"
    /\ call.language = AUTO
    /\ Len(call.reply.bullets) = 2
    /\ call.reply.lang = ENGLISH
    /\ \A i \in 1..2 : call.reply.bullets[i].lang = ENGLISH

(***************************************************************************)
(* Properties of format_distance (specification SpecDistance).             *)
(***************************************************************************)
\* The text reads `number` meters.
Meters(number) == [unit |-> "meters", number |-> number, tenth |-> 0]

\* The text reads `number`.`tenth` km.
Km(number, tenth) == [unit |-> "km", number |-> number, tenth |-> tenth]

\* C28: a distance below 1 km is rendered as the whole number of meters in
\* it, a distance of 1 km or more as kilometres with one decimal, the
\* nearest tenth; 0.4 km gives "400 meters", 2.345 km gives "2.3 km" and
\* exactly 1 km gives "1.0 km".
C28_MetersBelowOneKm ==
    call.op = "format_distance" =>
        /\ call.distance < UnitsPerKm =>
              /\ call.text.unit = "meters"
              /\ call.text.number * UnitsPerKm <= call.distance * 1000
              /\ call.distance * 1000 < (call.text.number + 1) * UnitsPerKm
        /\ call.distance >= UnitsPerKm =>
              /\ call.text.unit = "km"
              /\ call.text.tenth \in 0..9
              /\ 20 * call.distance - UnitsPerKm
                    <= 2 * UnitsPerKm * (10 * call.text.number + call.text.tenth)
              /\ 2 * UnitsPerKm * (10 * call.text.number + call.text.tenth)
                    <= 20 * call.distance + UnitsPerKm
        /\ call.distance = 800 => call.text = Meters(400)
        /\ call.distance = 4690 => call.text = Km(2, 3)
        /\ call.distance = UnitsPerKm => call.text = Km(1, 0)

\* 2.345 km was rendered as "2.3 km".
C28_Witness ==
    /\ call.op = "format_distance"
    /\ call.distance = 4690
    /\ call.text = Km(2, 3)

(***************************************************************************)
(* Properties of the webhook (specification SpecOnboarding).               *)
(***************************************************************************)
\* The user's first message was followed by a language choice and then a
\* mode choice, and Redis answered every call.
FollowedWelcome(u) ==
    /\ log.redis_ok
    /\ Len(log.sent[u]) = 3
    /\ log.sent[u][2].type = "text" /\ log.sent[u][2].body \in {"1", "2"}
    /\ log.sent[u][3].type = "text" /\ log.sent[u][3].body \in {"voice", "text"}

\* C29: a first-time user who answers the welcome message with a language
\* choice and then a mode choice has that language and that mode stored
\* and needs no onboarding any more.
C29_OnboardingCompletes ==
    \A u \in Users :
        FollowedWelcome(u) =>
            /\ ~needs_onboarding(u, redis, TRUE)
            /\ get_preferences(u, redis, TRUE).language
                  = (IF log.sent[u][2].body = "1" THEN URDU ELSE ENGLISH)
            /\ get_preferences(u, redis, TRUE).interaction_mode
                  = log.sent[u][3].body

(***************************************************************************)
(* Properties of startup (specification SpecStartup).                      *)
(***************************************************************************)
\* C30: the application is ready exactly when the MongoDB connect
\* succeeded and startup stops exactly when it failed, whatever the two
\* Redis connects did; a call of the context service never raises, and
\* while the store cannot be reached get_context returns the default
\* context and add_message and save_context return False.
C30_ReadyIffMongoDB ==
    /\ call.pc = "ready" <=> call.mongodb_connect = "connected"
    /\ call.pc = "failed" <=> call.mongodb_connect = "failed"
    /\ log.op # "none" =>
          /\ log.raised = None
          /\ (~log.usable /\ log.op = "get_context")
                => log.returned = FreshContext(log.user)
          /\ (~log.usable /\ log.op \in {"add_message", "save_context"})
                => log.returned = FALSE

\* Both Redis connects failed, the application is ready, and add_message
\* returned False.
C30_Witness ==
    /\ call.pc = "ready"
    /\ ~call.services_status.redis_context
    /\ ~call.services_status.redis_preferences
    /\ call.context_client = None
    /\ log.op = "add_message"
    /\ log.returned = FALSE
    /\ log.raised = None

(***************************************************************************)
(* Properties of LanguageDetector.detect (specification SpecDetector).     *)
(***************************************************************************)
\* C31: detect never raises and returns URDU or ENGLISH: URDU for a text
\* with a character in Urdu script, ENGLISH for a text of two or more
\* characters without one that holds an English indicator word.
C31_DetectsLanguage ==
    call.op = "detect" =>
        /\ call.raised = None
        /\ call.returned \in {URDU, ENGLISH}
        /\ (\E i \in 1..Len(call.text) : HasUrduChar(call.text[i]))
              => call.returned = URDU
        /\ (/\ StrippedLen(call.text) >= 2
            /\ \A i \in 1..Len(call.text) : ~HasUrduChar(call.text[i])
            /\ \E i \in 1..Len(call.text) : call.text[i] \in english_indicators)
              => call.returned = ENGLISH

(***************************************************************************)
(* Properties of one add_message call (specification SpecHistory).         *)
(***************************************************************************)
\* C32: an add_message call that returns leaves the store as it was (it
\* returned False), or leaves as the user's chat_history the last
\* max_history entries of the history stored before followed by the new
\* message.
C32_AppendsOrLeaves ==
    [][(tasks["t1"].phase = "read" /\ tasks'["t1"].phase = "idle")
          => \/ redis' = redis
             \/ StoredContents(tasks["t1"].user)'
                  = LastN(Append(StoredContents(tasks["t1"].user),
                                 tasks["t1"].content), max_history)]_vars

(***************************************************************************)
(* Invariants of the context in a conversation (specification Spec).       *)
(***************************************************************************)
\* C33: in every context reached from the default context by
\* process_message calls, symptom_data is present whenever
\* conversation_state is not INITIAL_COMPLAINT, so the handlers of the later
\* states always find it.
C33_SymptomDataPresent ==
    ctx.conversation_state # INITIAL_COMPLAINT
        => /\ ctx.symptom_data # NoSymptomData
           /\ ~Absent(ctx.symptom_data.chief_complaint)

\* A first turn that raised in handle_emergency left the context in
\* RISK_ASSESSMENT with its symptom data stored.
C33_Witness ==
    /\ IsTurn
    /\ call.state_before = INITIAL_COMPLAINT
    /\ call.raised # None
    /\ ctx.conversation_state = RISK_ASSESSMENT
    /\ ctx.symptom_data # NoSymptomData

\* C34: at the end of every process_message call, a context in
\* RISK_ASSESSMENT has risk_level "emergency", and risk_level is unset
\* exactly when the state is INITIAL_COMPLAINT or GATHERING_SYMPTOMS.
C34_RiskLevelFollowsState ==
    IsTurn =>
        /\ ctx.conversation_state = RISK_ASSESSMENT
              => ctx.risk_level = "emergency"
        /\ ctx.risk_level = None
              <=> ctx.conversation_state \in {INITIAL_COMPLAINT, GATHERING_SYMPTOMS}

\* A turn that started in RISK_ASSESSMENT with risk_level "emergency" and
\* ended in DOCTOR_RECOMMENDATION with a risk_level that assess_risk set.
C34_Witness ==
    /\ IsTurn
    /\ call.state_before = RISK_ASSESSMENT
    /\ call.after_emergency
    /\ ctx.conversation_state = DOCTOR_RECOMMENDATION
    /\ ctx.risk_level \in {"routine", "urgent"}

\* C35: no turn writes severity_scale, so once a turn has assessed the
\* risk, risk_level is "urgent" exactly when the stored severity label is
\* "severe" or its Urdu form; a numeric severity answer leaves it "routine".
C35_UrgentOnlyByLabel ==
    /\ ctx.symptom_data # NoSymptomData => ctx.symptom_data.severity_scale = 0
    /\ (IsTurn /\ ctx.risk_level \in {"routine", "urgent"}) =>
          /\ ctx.risk_level = "urgent"
                <=> ctx.symptom_data.severity \in {"severe", SEVERE_URDU}
          /\ ctx.symptom_data.severity = "9" => ctx.risk_level = "routine"

\* The user answered the severity question with a number from 8 to 10 and
\* the turn assessed the risk as "routine".
C35_Witness ==
    /\ IsTurn
    /\ call.state_before = GATHERING_SYMPTOMS
    /\ call.extractor.is_object
    /\ call.extractor.parsed_data.severity = "9"
    /\ ctx.symptom_data.severity = "9"
    /\ ctx.risk_level = "routine"
    /\ ctx.conversation_state = DOCTOR_RECOMMENDATION

(***************************************************************************)
(* Properties of the webhook pipeline (specification SpecPipeline).        *)
(***************************************************************************)
\* The context stored for a user.
StoredContext(u) == parse_context(redis[context_key(u)].data)

\* C36: whatever messages process_query has handled, a stored context has
\* conversation_state INITIAL_COMPLAINT, no symptom_data and no risk_level:
\* only its chat_history differs from the default context.
C36_OnlyHistoryChanges ==
    \A u \in Users :
        redis[context_key(u)] # Nil =>
            /\ StoredContext(u).conversation_state = INITIAL_COMPLAINT
            /\ StoredContext(u).symptom_data = NoSymptomData
            /\ StoredContext(u).risk_level = None
            /\ [StoredContext(u) EXCEPT !.chat_history = <<>>] = FreshContext(u)

\* Each entry of the history has the other role than the entry before it.
Alternates(h) == \A i \in 1..(Len(h) - 1) : h[i].role # h[i + 1].role

\* No task is inside process_query for the user.
Settled(u) == \A t \in TaskIds : tasks[t].phase = "idle" \/ tasks[t].user # u

C36_Witness ==
    \E u \in Users :
        /\ redis[context_key(u)] # Nil
        /\ Len(StoredContext(u).chat_history) = 4
        /\ StoredContext(u).conversation_state = INITIAL_COMPLAINT
        /\ StoredContext(u).symptom_data = NoSymptomData

(***************************************************************************)
(* Properties of the webhook for onboarded users (SpecCommands).           *)
(***************************************************************************)
\* The message a command is answered with.
CommandReply(text) ==
    IF text \in {"1", "2", "mode"} THEN "mode_selection"
    ELSE IF text \in {"voice", "text"} THEN "confirmation"
    ELSE IF text = "settings" THEN "settings"
    ELSE IF text = "help" THEN "help"
    ELSE "welcome"

\* The preferences stored for the sender of the last message.
SenderPreferences == redis[preferences_key(log.user)].fields

\* The last message left the stored contexts as they were.
ContextsKept == [k \in Keys |-> redis[k]] = log.contexts

====
